---------------------------- MODULE Spec2Model ----------------------------
(***************************************************************************)
(* Model of BaseModelClient (app/clients/model/_basemodelclient.py): the   *)
(* request formatter, the usage calculator, the unary and the streamed     *)
(* response formatters and the two forwarding entry points.                *)
(*                                                                         *)
(* Bytes are sequences of wire tokens (strings): "P" is `data: `, "S" is   *)
(* the event separator `\n\n`, "M" is `[DONE]`, every other token is a     *)
(* JSON text or a text that is not JSON.  The terminal marker              *)
(* `data: [DONE]` is the token pair <<"P", "M">>.                          *)
(* Python values are records tagged with their type (field ty).            *)
(* Time is a logical clock of seconds that advances by one at every        *)
(* suspension point on the transport.  Costs are counted in 1e-6 currency  *)
(* units.                                                                  *)
(*                                                                         *)
(* SpecRequest follows the unary calls of one request context, SpecStream  *)
(* follows requests that consist of one streamed call.                     *)
(* SpecUsage follows the accumulator of a request through unary and        *)
(* streamed calls.  DocumentManager (app/helpers/_documentmanager.py) is   *)
(* followed by SpecSearch and SpecDocument, ModelRegistry                  *)
(* (app/helpers/models/_modelregistry.py) by SpecRegistry.                 *)
(***************************************************************************)
EXTENDS Integers, Sequences, FiniteSets, TLC

VARIABLES
    carbon,            \* self.carbon, fixed at construction
    endpoint,          \* self.endpoint, set by the ModelRouter ("UNSET" before)
    calls,             \* number of forward_* calls started in this request context
    op,                \* "none", "request" or "stream": the call in flight
    pc,                \* "idle", "transport", "done", "raised"
    json,              \* the caller's JSON body (mutated in place by _format_request)
    additional_data,   \* caller-supplied fields to overlay
    sent,              \* requests issued to the network by this call
    now,               \* time.perf_counter(), logical
    start_time,        \* start_time of the call in flight
    raised,            \* the exception raised at the await on the transport ("None": none)
    connection,        \* the transport call of the async with blocks: "none", "open", "closed"
    upstream,          \* the response the upstream gave to forward_request
    result,            \* what forward_request returned, or what the call raised
    status_code,       \* response.status_code of the open stream
    received,          \* chunks the transport delivered to forward_stream so far
    buffer,            \* forward_stream's assembly buffer
    first_token_time,  \* forward_stream's first_token_time (NoTime = None)
    out,               \* (bytes, status) pairs yielded by forward_stream
    emissions,         \* per chunk received: the pairs yielded while handling it
    extra_chunks,      \* the extra_chunk dictionaries dumped into the stream
    tokenizer_calls,   \* arguments of get_completion_tokens calls of this call
    scheduled,         \* Metric objects handed to asyncio.create_task by this call
    usage,             \* request_context.get().usage, the request-scoped accumulator
    logged,            \* messages this call logged with logger.exception (line 177)
    task_status,       \* per Metric scheduled: the state of its detached task
    timeseries,        \* the samples the tasks of this call added to the store
    vector_store,          \* DocumentManager.vector_store: "set" or "None"
    web_search_manager,    \* DocumentManager.web_search_manager: "set" or "None"
    multi_agent_manager,   \* DocumentManager.multi_agent_manager: "set" or "None"
    collection_table,      \* ids of the rows of CollectionTable
    vector_collections,    \* ids of the collections of the vector store
    search,                \* the last search_chunks call: its arguments and its outcome
    document_table,        \* the rows of DocumentTable: id and collection_id
    vector_chunks,         \* the documents that have chunks in the vector store
    document_seq,          \* the last id the sequence of DocumentTable.id gave
    document_call,         \* the last create_document or delete_document call and its outcome
    routers,               \* the list of routers the ModelRegistry was built from
    registry,              \* the ModelRegistry: its __dict__, or what its construction raised
    lookup                 \* the last call of the registry: its argument and its outcome

clientVars == <<carbon, endpoint, calls, op, pc, json, additional_data, sent, now, start_time,
          raised, connection, upstream, result, status_code, received, buffer, first_token_time, out,
          emissions, extra_chunks, tokenizer_calls, scheduled, usage, logged,
          task_status, timeseries>>

docVars == <<vector_store, web_search_manager, multi_agent_manager, collection_table,
             vector_collections, search, document_table, vector_chunks, document_seq, document_call>>

registryVars == <<routers, registry, lookup>>

vars == <<clientVars, docVars, registryVars>>

streamVars == <<status_code, received, buffer, first_token_time, out,
                emissions, extra_chunks>>

-----------------------------------------------------------------------------
(* Bounds *)

MaxCalls == 2      \* forward_request calls per request context
MaxChunks == 3     \* chunks the transport delivers per stream
MaxCollections == 4   \* rows of CollectionTable
MaxDocuments == 3     \* ids the sequence of DocumentTable.id gives
MaxRouters == 3       \* routers in the list a ModelRegistry is built from

-----------------------------------------------------------------------------
(* Configuration of the client under study *)

BackendModel == "backend-name"      \* self.model
CallerModel == "caller-name"        \* the model name in the caller's body
ApiUrl == "http://backend/"         \* self.api_url

\* self.costs, in tenths of a currency unit per million tokens (0.4 and 0.2)
PromptCostTenths == 4
CompletionCostTenths == 2

NoTime == -1       \* None, for a time or a duration
NoValue == -1      \* None, for a carbon bound

Endpoints == {"/chat/completions", "/embeddings", "/models", "/ocr"}

\* ENDPOINT_TABLE of a concrete client: the base class maps every endpoint to
\* None and a subclass fills in the paths its backend serves.
ENDPOINT_TABLE ==
    [e \in Endpoints |->
        CASE e = "/chat/completions" -> "v1/chat/completions"
          [] e = "/embeddings" -> "v1/embeddings"
          [] e = "/models" -> "v1/models"
          [] OTHER -> "None"]

\* global_context.tokenizer.USAGE_COMPLETION_ENDPOINTS: endpoint -> whether
\* the endpoint also carries completion tokens.
USAGE_COMPLETION_ENDPOINTS ==
    [e \in {"/chat/completions", "/embeddings"} |-> e = "/chat/completions"]

-----------------------------------------------------------------------------
(* Python values *)

PyStr(s) == [ty |-> "str", s |-> s]
PyInt(s) == [ty |-> "int", s |-> s]
PyNone == [ty |-> "NoneType", s |-> "None"]
PyList(s) == [ty |-> "list", s |-> s]
PyDict(s) == [ty |-> "dict", s |-> s]
PyDictMessage(s, m) == [ty |-> "dict", s |-> s, message |-> m]

\* Texts an upstream may answer with
T_LITERAL == "{\"message\": \"{'error':'rate limited'}\"}"
T_PLAIN == "{\"message\": \"rate limited\"}"
T_NUMBER_MESSAGE == "{\"message\": 7}"
T_NO_MESSAGE == "{\"error\": \"rate limited\"}"
T_ARRAY == "[1]"
T_ARRAY_MESSAGE == "[\"message\"]"
T_NUMBER == "5"
T_STRING == "\"message lost\""
T_NULL == "null"
T_NOT_JSON == "upstream unavailable"

ErrorTexts == {T_LITERAL, T_PLAIN, T_NUMBER_MESSAGE, T_NO_MESSAGE, T_ARRAY,
               T_ARRAY_MESSAGE, T_NUMBER, T_STRING, T_NULL, T_NOT_JSON}

\* Bodies of a successful unary response
R_WITH_ID == "{\"id\": \"chatcmpl-1\", \"choices\": [...]}"
R_WITHOUT_ID == "{\"data\": [...]}"

SuccessTexts == {R_WITH_ID, R_WITHOUT_ID}

ContentTypes == {"application/json", "application/json; charset=utf-8", "text/plain"}

IsJson(text) == text # T_NOT_JSON

\* json.loads on a text that is JSON
loads(text) ==
    CASE text = T_LITERAL -> PyDictMessage("{}", PyStr("{'error':'rate limited'}"))
      [] text = T_PLAIN -> PyDictMessage("{}", PyStr("rate limited"))
      [] text = T_NUMBER_MESSAGE -> PyDictMessage("{}", PyInt("7"))
      [] text = T_NO_MESSAGE -> PyDict("{'error': 'rate limited'}")
      [] text = T_ARRAY -> PyList("[1]")
      [] text = T_ARRAY_MESSAGE -> PyList("['message']")
      [] text = T_NUMBER -> PyInt("5")
      [] text = T_STRING -> PyStr("message lost")
      [] text = R_WITH_ID -> [ty |-> "dict", s |-> "{'choices': [...]}", id |-> "chatcmpl-1"]
      [] text = R_WITHOUT_ID -> PyDict("{'data': [...]}")
      [] OTHER -> PyNone

\* `"message" in v`: "True", "False" or the exception it raises
ContainsMessage(v) ==
    CASE v.ty = "dict" -> IF "message" \in DOMAIN v THEN "True" ELSE "False"
      [] v.ty = "list" -> IF v.s = "['message']" THEN "True" ELSE "False"
      [] v.ty = "str" -> IF v.s = "message lost" THEN "True" ELSE "False"
      [] OTHER -> "TypeError"

\* whether v["message"] evaluates (a list or a str cannot be indexed by a str)
CanIndexMessage(v) == v.ty = "dict" /\ "message" \in DOMAIN v

\* Faulty variant: the "message" is never evaluated as a literal
IsLiteral_Never(v) == FALSE

\* whether ast.literal_eval(v) returns: v is a str holding a Python literal
IsLiteral(v) == v.ty = "str" /\ v.s = "{'error':'rate limited'}"

\* ast.literal_eval on a str that holds a literal
literal_eval(v) ==
    CASE v.s = "{'error':'rate limited'}" -> PyDict("{'error': 'rate limited'}")
      [] OTHER -> PyNone

-----------------------------------------------------------------------------
(* Usage, Detail and the collaborators of the calculator *)

NoUsage == [ty |-> "NoneType"]

EmptyCarbon == [kg_min |-> NoValue, kg_max |-> NoValue,
                kwh_min |-> NoValue, kwh_max |-> NoValue]

\* Usage(): the accumulator of a fresh request context
EmptyUsage == [prompt_tokens |-> 0, completion_tokens |-> 0, total_tokens |-> 0,
               cost |-> 0, carbon |-> EmptyCarbon, details |-> <<>>]

\* self.carbon: the model's size is known, its deployment zone may not be
CarbonProfiles == {"zone unknown", "known"}

\* get_carbon_footprint: each bound is a value or None, depending on what is
\* known of the model; a value grows with the token count and the latency.
get_carbon_footprint(profile, token_count, request_latency) ==
    CASE profile = "known" ->
            [kg_min |-> token_count, kg_max |-> 2 * token_count,
             kwh_min |-> token_count, kwh_max |-> token_count + request_latency]
      [] profile = "zone unknown" ->
            [kg_min |-> NoValue, kg_max |-> NoValue,
             kwh_min |-> token_count, kwh_max |-> token_count + request_latency]
      [] OTHER -> EmptyCarbon

\* tokenizer.get_prompt_tokens: a count that depends on the body alone
get_prompt_tokens(body) == IF "model" \in DOMAIN body THEN 2 ELSE 1

\* tokenizer.get_completion_tokens: one token per generated content fragment
RECURSIVE CountContent(_)
CountContent(events) ==
    IF events = <<>> THEN 0
    ELSE (IF "choices" \in DOMAIN Head(events)
             /\ Head(events).choices \notin {"", "[]", "null", "no content"}
          THEN 1 ELSE 0)
         + CountContent(Tail(events))

get_completion_tokens(data, stream) ==
    IF stream THEN CountContent(data)
    ELSE IF "id" \in DOMAIN data THEN 1 ELSE 0

\* round(n / 10): Python rounds a tie to the even neighbour
RoundTenths(n) ==
    LET q == n \div 10
        r == n % 10
    IN  IF r < 5 THEN q
        ELSE IF r > 5 THEN q + 1
        ELSE IF q % 2 = 0 THEN q ELSE q + 1

\* Faulty variant: the cost is truncated to 6 decimals instead of rounded
Cost_Truncated(prompt, completion) ==
    (prompt * PromptCostTenths + completion * CompletionCostTenths) \div 10

\* round(prompt / 1e6 * costs.prompt_tokens
\*       + completion / 1e6 * costs.completion_tokens, ndigits=6), in 1e-6 units
Cost(prompt, completion) ==
    RoundTenths(prompt * PromptCostTenths + completion * CompletionCostTenths)

\* Faulty variant: a bound without a contribution is counted as zero
AddBound_CoercedToZero(total, contribution) ==
    (IF total = NoValue THEN 0 ELSE total)
    + (IF contribution = NoValue THEN 0 ELSE contribution)

\* usage.carbon.<bound> += detail.usage.carbon.<bound>, guarded by `is not None`
AddBound(total, contribution) ==
    IF contribution # NoValue
    THEN (IF total = NoValue THEN 0 ELSE total) + contribution
    ELSE total

generate_request_id == "generated-id"

\* data.get("id", generate_request_id())
GetId(d) == IF "id" \in DOMAIN d THEN d.id ELSE generate_request_id

\* Faulty variant: the completion tokens are counted for every usage-bearing endpoint
CompletionTokens_Always(ep, data, stream) == get_completion_tokens(data, stream)

\* Lines 131-136: the completion tokens of the Detail, which stay 0 (the
\* default of Usage()) for an endpoint that carries no completion tokens
CompletionTokens(ep, data, stream) ==
    IF USAGE_COMPLETION_ENDPOINTS[ep] THEN get_completion_tokens(data, stream) ELSE 0

\* Faulty variant: the Detail is appended but the running total of tokens misses
\* its completion tokens
Accumulate_TotalOfPromptsOnly(acc, detail) ==
    [prompt_tokens |-> acc.prompt_tokens + detail.usage.prompt_tokens,
     completion_tokens |-> acc.completion_tokens + detail.usage.completion_tokens,
     total_tokens |-> acc.total_tokens + detail.usage.prompt_tokens,
     cost |-> acc.cost + detail.usage.cost,
     carbon |->
       [kg_min |-> AddBound(acc.carbon.kg_min, detail.usage.carbon.kg_min),
        kg_max |-> AddBound(acc.carbon.kg_max, detail.usage.carbon.kg_max),
        kwh_min |-> AddBound(acc.carbon.kwh_min, detail.usage.carbon.kwh_min),
        kwh_max |-> AddBound(acc.carbon.kwh_max, detail.usage.carbon.kwh_max)],
     details |-> Append(acc.details, detail)]

\* Lines 148-175: the Detail is appended to the accumulator and its tokens,
\* cost and carbon bounds are added to the running totals.  Nothing before
\* the append has touched the accumulator, and nothing after it can raise:
\* the additions are additions of numbers.
Accumulate(acc, detail) ==
    [prompt_tokens |-> acc.prompt_tokens + detail.usage.prompt_tokens,
     completion_tokens |-> acc.completion_tokens + detail.usage.completion_tokens,
     total_tokens |-> acc.total_tokens + detail.usage.total_tokens,
     cost |-> acc.cost + detail.usage.cost,
     carbon |->
       [kg_min |-> AddBound(acc.carbon.kg_min, detail.usage.carbon.kg_min),
        kg_max |-> AddBound(acc.carbon.kg_max, detail.usage.carbon.kg_max),
        kwh_min |-> AddBound(acc.carbon.kwh_min, detail.usage.carbon.kwh_min),
        kwh_max |-> AddBound(acc.carbon.kwh_max, detail.usage.carbon.kwh_max)],
     details |-> Append(acc.details, detail)]

\* _get_usage.  data is the decoded response (unary) or the list of decoded
\* events (stream); raises tells whether the tokenizer or the carbon
\* estimator raises.  Returns the value of `usage` at the return statement
\* (ret), the accumulator afterwards (acc), the arguments of the
\* get_completion_tokens call, if one was made (tok), and what the except
\* clause logged (log).
_get_usage(ep, acc, body, data, stream, request_latency, raises) ==
    IF ep \notin DOMAIN USAGE_COMPLETION_ENDPOINTS
    THEN [ret |-> NoUsage, acc |-> acc, tok |-> <<>>, log |-> <<>>]
    ELSE LET first == IF stream THEN data[1] ELSE data
         IN  IF first.ty # "dict" \/ raises
             THEN \* the exception is caught after `usage` was bound
                  [ret |-> acc, acc |-> acc, tok |-> <<>>,
                   log |-> <<"Failed to compute usage values">>]
             ELSE LET prompt == get_prompt_tokens(body)
                      withCompletion == USAGE_COMPLETION_ENDPOINTS[ep]
                      completion == CompletionTokens(ep, data, stream)
                      footprint == get_carbon_footprint(carbon, prompt + completion,
                                                        request_latency)
                      detail == [id |-> GetId(first), model |-> BackendModel,
                                 usage |-> [prompt_tokens |-> prompt,
                                            completion_tokens |-> completion,
                                            total_tokens |-> prompt + completion,
                                            cost |-> Cost(prompt, completion),
                                            carbon |-> footprint]]
                      new == Accumulate(acc, detail)
                  IN  [ret |-> new, acc |-> new,
                       tok |-> IF withCompletion THEN <<data>> ELSE <<>>,
                       log |-> <<>>]

\* Lines 186-192: {"model", "id"} plus "usage" when usage is truthy, u being
\* what _get_usage gave
AdditionalData(u) ==
    [fields |-> [model |-> BackendModel,
                 id |-> IF u.ret # NoUsage /\ Len(u.ret.details) > 0
                        THEN u.ret.details[Len(u.ret.details)].id
                        ELSE generate_request_id,
                 usage |-> u.ret],
     acc |-> u.acc, tok |-> u.tok, log |-> u.log]

\* _get_additional_data
_get_additional_data(ep, acc, body, data, stream, request_latency, raises) ==
    AdditionalData(_get_usage(ep, acc, body, data, stream, request_latency, raises))

-----------------------------------------------------------------------------
(* Request formatter *)

NoBody == [ty |-> "NoneType"]
Bodies == { [ty |-> "dict", s |-> "{'messages': [...]}", model |-> CallerModel],
            [ty |-> "dict", s |-> "{'input': [...]}"] }

\* The body of a streamed call asks for a stream of a model's completion
StreamBodies == { [ty |-> "dict", s |-> "{'messages': [...], 'stream': True}",
                   model |-> CallerModel] }

NoExtra == [ty |-> "dict"]
Extras == { NoExtra, [ty |-> "dict", model |-> CallerModel] }

\* urljoin(base, url): `if not url: return base`
urljoin(base, url) == IF url = "None" THEN base ELSE base \o url

\* _format_request: the url and the body, the model field overwritten
_format_request(ep, body) ==
    [url |-> urljoin(ApiUrl, ENDPOINT_TABLE[ep]),
     authorization |-> "Bearer api_key",
     json |-> IF "model" \in DOMAIN body
              THEN [body EXCEPT !.model = BackendModel]
              ELSE body]

\* dict.update(fields) on the response fields model / id / usage
Overlay(d, extra) == IF "model" \in DOMAIN extra THEN [d EXCEPT !.model = extra.model] ELSE d

\* Lines 236-238: the response rebuilt from the merged data, a being what
\* _get_additional_data gave
MergedResponse(response, a, extra) ==
    [response |-> [status_code |-> response.status_code,
                   content_type |-> "None",
                   text |-> response.text,
                   data |-> Overlay(a.fields, extra)],
     acc |-> a.acc, tok |-> a.tok, log |-> a.log]

\* _format_response
_format_response(ep, acc, body, response, extra, request_latency, raises) ==
    IF response.content_type = "application/json"
    THEN MergedResponse(response,
                        _get_additional_data(ep, acc, body, loads(response.text), FALSE,
                                             request_latency, raises),
                        extra)
    ELSE [response |-> response, acc |-> acc, tok |-> <<>>, log |-> <<>>]

-----------------------------------------------------------------------------
(* State after construction *)

NoResult == [kind |-> "none"]
NoResponse == [status_code |-> 0]
NoStatus == 0
NoDocumentCall == [kind |-> "none"]
NoSearch == [outcome |-> [kind |-> "none"]]

\* An exception of the application, and an exception of another kind
HTTPException(status, detail) ==
    [kind |-> "raise", exc |-> "HTTPException", status_code |-> status, detail |-> detail]
Raise(exc) ==
    [kind |-> "raise", exc |-> exc, status_code |-> NoStatus, detail |-> PyNone]

\* ModelRegistry (app/helpers/models/_modelregistry.py).  The attributes of a
\* Python object are the entries of its __dict__: the registry keeps its
\* list `models`, its dictionary `aliases` and, under its name, every router.

\* The routers the application may be configured with.  A router has the
\* attribute `name` only when it has a client (has_name); the field name of
\* a router without it is never read.
RouterPool ==
    { [rid |-> 1, has_name |-> TRUE, name |-> "a", aliases |-> <<"x">>],
      [rid |-> 2, has_name |-> TRUE, name |-> "b", aliases |-> <<"y", "z">>],
      [rid |-> 3, has_name |-> FALSE, name |-> "", aliases |-> <<"w">>],
      [rid |-> 4, has_name |-> TRUE, name |-> "a", aliases |-> <<>>],
      [rid |-> 5, has_name |-> TRUE, name |-> "d", aliases |-> <<"b">>],
      [rid |-> 6, has_name |-> TRUE, name |-> "aliases", aliases |-> <<>>],
      [rid |-> 7, has_name |-> TRUE, name |-> "models", aliases |-> <<>>] }

\* The strings the registry is called with
LookupArguments == {"a", "b", "d", "w", "x", "y", "z", "aliases", "models", "other"}

\* Lines 11-12: list() and dict()
NewRegistry ==
    [dict |-> ("models" :> [ty |-> "list", items |-> <<>>])
              @@ ("aliases" :> [ty |-> "dict", map |-> [a \in {} |-> ""]]),
     raised |-> "None"]

\* Line 18: self.__dict__[model.name] = model, whatever that entry held
SetAttribute(reg, model) ==
    [reg EXCEPT !.dict = (model.name :> [ty |-> "ModelRouter", router |-> model]) @@ @]

\* Line 19: self.models.append(model.name); a router is not a list and has
\* no append
AppendName(reg, name) ==
    IF reg.dict["models"].ty # "list"
    THEN [reg EXCEPT !.raised = "AttributeError"]
    ELSE [reg EXCEPT !.dict["models"].items = Append(@, name)]

\* Lines 21-22: self.aliases[alias] = model.name for every alias; a router
\* does not support item assignment
RECURSIVE SetAliases(_, _, _)
SetAliases(reg, aliases, name) ==
    IF reg.raised # "None" \/ aliases = <<>> THEN reg
    ELSE IF reg.dict["aliases"].ty # "dict"
    THEN [reg EXCEPT !.raised = "TypeError"]
    ELSE SetAliases([reg EXCEPT !.dict["aliases"].map = (Head(aliases) :> name) @@ @],
                    Tail(aliases), name)

\* Lines 15-22: one iteration of the loop of __init__
Register(reg, model) ==
    IF ~model.has_name THEN reg
    ELSE SetAliases(AppendName(SetAttribute(reg, model), model.name),
                    model.aliases, model.name)

\* Lines 14-22: the loop, which an exception leaves
RECURSIVE RegisterAll(_, _)
RegisterAll(reg, list) ==
    IF reg.raised # "None" \/ list = <<>> THEN reg
    ELSE RegisterAll(Register(reg, Head(list)), Tail(list))

\* ModelRegistry.__init__
__init__(list) == RegisterAll(NewRegistry, list)

\* Lines 27-29, model being the name line 25 gave
Lookup(reg, model) ==
    IF reg.dict["models"].ty # "list"
    THEN Raise("TypeError")
    ELSE IF \E i \in 1..Len(reg.dict["models"].items) : reg.dict["models"].items[i] = model
    THEN [kind |-> "return", value |-> reg.dict[model]]
    ELSE Raise("ModelNotFoundException")

\* ModelRegistry.__call__: line 25 is self.aliases.get(model, model), and a
\* router has no method get
__call__(reg, model) ==
    IF reg.dict["aliases"].ty # "dict"
    THEN Raise("AttributeError")
    ELSE Lookup(reg, IF model \in DOMAIN reg.dict["aliases"].map
                     THEN reg.dict["aliases"].map[model] ELSE model)

NoLookup == [model |-> "", result |-> [kind |-> "none"]]

Init ==
    /\ carbon \in CarbonProfiles
    /\ endpoint = "UNSET"
    /\ calls = 0
    /\ op = "none"
    /\ pc = "idle"
    /\ json = NoBody
    /\ additional_data = NoExtra
    /\ sent = <<>>
    /\ now = 0
    /\ start_time = NoTime
    /\ raised = "None"
    /\ connection = "none"
    /\ upstream = NoResponse
    /\ result = NoResult
    /\ status_code = NoStatus
    /\ received = <<>>
    /\ buffer = <<>>
    /\ first_token_time = NoTime
    /\ out = <<>>
    /\ emissions = <<>>
    /\ extra_chunks = <<>>
    /\ tokenizer_calls = <<>>
    /\ scheduled = <<>>
    /\ usage = EmptyUsage
    /\ logged = <<>>
    /\ task_status = <<>>
    /\ timeseries = {}
    /\ vector_store = "set"
    /\ web_search_manager = "None"
    /\ multi_agent_manager = "None"
    /\ collection_table = {1, 2}
    /\ vector_collections = {1, 2}
    /\ search = NoSearch
    /\ document_table = {}
    /\ vector_chunks = {}
    /\ document_seq = 0
    /\ document_call = NoDocumentCall
    /\ routers = <<>>
    /\ registry = __init__(<<>>)
    /\ lookup = NoLookup

\* The ModelRouter sets client.endpoint before it hands the client out.
SetEndpoint(e) ==
    /\ pc = "idle"
    /\ endpoint # e
    /\ endpoint' = e
    /\ UNCHANGED <<raised, connection, upstream, logged, task_status, timeseries>>
    /\ UNCHANGED <<carbon, calls, op, pc, json, additional_data, sent, now, start_time,
                   result, tokenizer_calls, scheduled, usage>>
    /\ UNCHANGED streamVars
    /\ UNCHANGED docVars
    /\ UNCHANGED registryVars

\* The client is an attribute of a router that the registry keeps for the
\* life of the application: while this request is suspended on the
\* transport, the ModelRouter hands the same client to another request and
\* sets client.endpoint for it.
RouterSetsEndpoint(e) ==
    /\ op = "request"
    /\ pc = "transport"
    /\ endpoint # e
    /\ endpoint' = e
    /\ UNCHANGED <<raised, connection, upstream, logged, task_status, timeseries>>
    /\ UNCHANGED <<carbon, calls, op, pc, json, additional_data, sent, now, start_time,
                   result, tokenizer_calls, scheduled, usage>>
    /\ UNCHANGED streamVars
    /\ UNCHANGED docVars
    /\ UNCHANGED registryVars

\* The per-call variables once the frame of the call is gone
FrameGone ==
    /\ op' = "none"
    /\ pc' = "idle"
    /\ json' = NoBody
    /\ additional_data' = NoExtra
    /\ sent' = <<>>
    /\ now' = 0
    /\ start_time' = NoTime
    /\ raised' = "None"
    /\ connection' = "none"
    /\ upstream' = NoResponse
    /\ result' = NoResult
    /\ status_code' = NoStatus
    /\ received' = <<>>
    /\ buffer' = <<>>
    /\ first_token_time' = NoTime
    /\ out' = <<>>
    /\ emissions' = <<>>
    /\ extra_chunks' = <<>>
    /\ tokenizer_calls' = <<>>
    /\ scheduled' = <<>>
    /\ logged' = <<>>
    /\ task_status' = <<>>
    /\ timeseries' = {}

\* forward_request has returned or raised and the caller goes on within the
\* same request: the request context, with its accumulator, lives on.
Return ==
    /\ op = "request"
    /\ pc \in {"done", "raised"}
    /\ FrameGone
    /\ UNCHANGED <<carbon, endpoint, calls, usage>>
    /\ UNCHANGED docVars
    /\ UNCHANGED registryVars

\* The sequence of forward_stream is exhausted, or the call raised: the
\* streamed response is complete and its request exits, which discards the
\* request context.
EndRequest ==
    /\ op = "stream"
    /\ pc \in {"done", "raised"}
    /\ FrameGone
    /\ calls' = 0
    /\ usage' = EmptyUsage
    /\ UNCHANGED <<carbon, endpoint>>
    /\ UNCHANGED docVars
    /\ UNCHANGED registryVars

-----------------------------------------------------------------------------
(* forward_request *)

TimeoutExceptions == {"ConnectTimeout", "ReadTimeout", "WriteTimeout", "PoolTimeout"}
OtherExceptions == {"ConnectError", "RemoteProtocolError"}
TransportExceptions == TimeoutExceptions \cup OtherExceptions

\* What the transport raises while a stream is opened or read
StreamExceptions == {"ConnectTimeout", "ReadTimeout", "RemoteProtocolError"}

TimeoutDetail == "Request timed out, model is too busy."

ErrorStatuses == {429, 503}
SuccessStatuses == {200}

\* int(request_time_to_first_token * 1_000_000), the clock counting seconds
Microseconds(seconds) == seconds * 1000000

\* Faulty variant: the latency is recorded in seconds
Milliseconds_Unconverted(seconds) == seconds

\* int(request_latency * 1_000)
Milliseconds(seconds) == seconds * 1000

Metric(ttft, latency) ==
    [time_to_first_token_us |-> ttft, latency_ms |-> latency,
     model_name |-> BackendModel, api_url |-> ApiUrl]

\* Lines 281-288: the request is built and handed to the transport.  With
\* self.endpoint never set, _format_request raises AttributeError.
ForwardRequest(body, extra) ==
    /\ pc = "idle"
    /\ calls < MaxCalls
    /\ calls' = calls + 1
    /\ op' = "request"
    /\ additional_data' = extra
    /\ IF endpoint = "UNSET"
       THEN /\ pc' = "raised"
            /\ result' = Raise("AttributeError")
            /\ json' = body
            /\ UNCHANGED <<sent, start_time, connection>>
       ELSE /\ pc' = "transport"
            /\ json' = _format_request(endpoint, body).json
            /\ sent' = Append(sent, [url |-> _format_request(endpoint, body).url,
                                     authorization |-> _format_request(endpoint, body).authorization,
                                     json |-> _format_request(endpoint, body).json])
            /\ start_time' = now
            /\ connection' = "open"
            /\ UNCHANGED result
    /\ UNCHANGED <<raised, upstream, logged, task_status, timeseries>>
    /\ UNCHANGED <<carbon, endpoint, now, tokenizer_calls, scheduled, usage>>
    /\ UNCHANGED streamVars
    /\ UNCHANGED docVars
    /\ UNCHANGED registryVars

\* Faulty variant: PoolTimeout is not among the timeouts caught at line 290
TransportFailure_PoolTimeoutMissed(exc) ==
    IF exc \in TimeoutExceptions \ {"PoolTimeout"}
    THEN HTTPException(504, PyStr(TimeoutDetail))
    ELSE HTTPException(500, PyStr(exc))

\* Lines 290-294: what forward_request raises for an exception of the transport
TransportFailure(exc) ==
    IF exc \in TimeoutExceptions
    THEN HTTPException(504, PyStr(TimeoutDetail))
    ELSE HTTPException(500, PyStr(exc))

RequestTransportRaises(exc) ==
    /\ op = "request"
    /\ pc = "transport"
    /\ now' = now + 1
    /\ pc' = "raised"
    /\ raised' = exc
    /\ connection' = "closed"
    /\ result' = TransportFailure(exc)
    /\ UNCHANGED <<upstream, logged, task_status, timeseries>>
    /\ UNCHANGED <<carbon, endpoint, calls, op, json, additional_data, sent, start_time,
                   tokenizer_calls, scheduled, usage>>
    /\ UNCHANGED streamVars
    /\ UNCHANGED docVars
    /\ UNCHANGED registryVars

\* Lines 298-308: the exception forward_request raises for a non-2xx response
UpstreamError(status, text) ==
    IF ~IsJson(text)
    THEN HTTPException(status, PyStr(text))
    ELSE LET message == loads(text)
         IN  CASE ContainsMessage(message) = "TypeError" -> Raise("TypeError")
               [] ContainsMessage(message) = "False" -> HTTPException(status, message)
               [] OTHER ->
                    IF ~CanIndexMessage(message)
                    THEN Raise("TypeError")
                    ELSE IF IsLiteral(message.message)
                         THEN HTTPException(status, literal_eval(message.message))
                         ELSE HTTPException(status, message.message)

RequestUpstreamError(status, text) ==
    /\ op = "request"
    /\ pc = "transport"
    /\ now' = now + 1
    /\ pc' = "raised"
    /\ upstream' = [status_code |-> status, content_type |-> "application/json",
                    text |-> text]
    /\ result' = UpstreamError(status, text)
    /\ connection' = "closed"
    /\ UNCHANGED <<raised, logged, task_status, timeseries>>
    /\ UNCHANGED <<carbon, endpoint, calls, op, json, additional_data, sent, start_time,
                   tokenizer_calls, scheduled, usage>>
    /\ UNCHANGED streamVars
    /\ UNCHANGED docVars
    /\ UNCHANGED registryVars

\* Lines 312 and 320: what forward_request returns, f being what
\* _format_response gave
Returned(f) ==
    /\ result' = [kind |-> "return", response |-> f.response]
    /\ usage' = f.acc
    /\ tokenizer_calls' = tokenizer_calls \o f.tok
    /\ logged' = logged \o f.log

\* Lines 310-320: the response is formatted, the metric task is created and
\* the response is returned.
RequestSuccess(status, ctype, text, raises) ==
    /\ op = "request"
    /\ pc = "transport"
    /\ now' = now + 1
    /\ upstream' = [status_code |-> status, content_type |-> ctype, text |-> text]
    /\ Returned(_format_response(endpoint, usage, json, upstream', additional_data,
                                 now' - start_time, raises))
    /\ scheduled' = Append(scheduled, Metric(NoTime, Milliseconds(now' - start_time)))
    /\ task_status' = Append(task_status, "pending")
    /\ pc' = "done"
    /\ connection' = "closed"
    /\ UNCHANGED <<raised, timeseries>>
    /\ UNCHANGED <<carbon, endpoint, calls, op, json, additional_data, sent, start_time>>
    /\ UNCHANGED streamVars
    /\ UNCHANGED docVars
    /\ UNCHANGED registryVars

-----------------------------------------------------------------------------
(* Stream formatter *)

\* Chunks a backend sends on a 2xx stream
Chunks2xx ==
    { <<"P", "J1", "S">>,                    \* an event with delta content "x"
      <<"P", "J0", "S">>,                    \* an event with delta content ""
      <<"P", "BAD", "S">>,                   \* an event whose JSON is malformed
      <<"P", "JL", "S">>,                    \* an event whose JSON is an array
      <<"P", "M", "S">>,                     \* the terminal marker alone
      <<"P", "J1", "S", "P", "M", "S">>,     \* an event, then the terminal marker
      <<"P", "J1", "S", "P">>,               \* an event, then the bytes `data: `
      <<"M", "S">>,                          \* the bytes `[DONE]\n\n`
      <<"J1", "S">> }                        \* the rest of an event begun earlier

\* Chunks a backend sends with a non-2xx status
ChunksError ==
    { <<T_LITERAL>>, <<T_PLAIN>>, <<T_NO_MESSAGE>>, <<T_NUMBER>>, <<T_NOT_JSON>> }

StreamStatuses == {200, 429}

JsonTokens == {"J1", "J0", "JN", "JD", "JL"}

\* json.loads of an event's JSON text
DecodeEvent(tok) ==
    CASE tok = "J1" -> [ty |-> "dict", id |-> "chatcmpl-1", choices |-> "x"]
      [] tok = "J0" -> [ty |-> "dict", id |-> "chatcmpl-1", choices |-> ""]
      [] tok = "JN" -> [ty |-> "dict", id |-> "chatcmpl-1", choices |-> "null"]
      [] tok = "JD" -> [ty |-> "dict", id |-> "chatcmpl-1", choices |-> "no content"]
      [] OTHER -> [ty |-> "list"]

\* json.dumps of a value decoded from an error chunk
dumps(v) ==
    CASE v = loads(T_LITERAL) -> T_LITERAL
      [] v = loads(T_PLAIN) -> T_PLAIN
      [] v = loads(T_NO_MESSAGE) -> T_NO_MESSAGE
      [] v = PyDictMessage("{}", PyDict("{'error': 'rate limited'}"))
            -> "{\"message\": {\"error\": \"rate limited\"}}"
      [] OTHER -> "null"

\* dumps({"detail": detail}).encode()
ErrorPayload(detail) == << "{\"detail\": \"" \o detail \o "\"}" >>

\* Faulty variant: the bytes `[DONE]` alone are taken for the terminal marker
MatchStart_BareMarker(chunk) ==
    LET hits == { i \in 1..Len(chunk) : chunk[i] = "M" }
    IN  IF hits = {} THEN 0 ELSE CHOOSE i \in hits : \A j \in hits : i <= j

\* re.search(rb"data: \[DONE\]", chunk): match.start(), 0 when there is no match
MatchStart(chunk) ==
    LET hits == { i \in 1..(Len(chunk) - 1) : chunk[i] = "P" /\ chunk[i + 1] = "M" }
    IN  IF hits = {} THEN 0 ELSE CHOOSE i \in hits : \A j \in hits : i <= j

\* bytes.split("\n\n"): the pieces between the separators
RECURSIVE SplitLines(_)
SplitLines(bytes) ==
    IF \A i \in 1..Len(bytes) : bytes[i] # "S"
    THEN <<bytes>>
    ELSE LET k == CHOOSE i \in 1..Len(bytes) :
                      bytes[i] = "S" /\ \A j \in 1..(i - 1) : bytes[j] # "S"
         IN  <<SubSeq(bytes, 1, k - 1)>> \o SplitLines(SubSeq(bytes, k + 1, Len(bytes)))

\* Faulty variant: a line whose JSON does not decode is kept, undecoded
ParseLine_MalformedKept(line) ==
    IF Len(line) = 2 /\ line[1] = "P"
    THEN IF line[2] \in JsonTokens THEN <<DecodeEvent(line[2])>> ELSE <<[ty |-> "str"]>>
    ELSE <<>>

\* Lines 345-355 for one line: the decoded event, or nothing
ParseLine(line) ==
    IF Len(line) = 2 /\ line[1] = "P" /\ line[2] \in JsonTokens
    THEN <<DecodeEvent(line[2])>>
    ELSE <<>>

RECURSIVE ParseLines(_)
ParseLines(lines) ==
    IF lines = <<>> THEN <<>>
    ELSE ParseLine(Head(lines)) \o ParseLines(Tail(lines))

\* Lines 341-355: the events decoded from the buffer, in order
RECURSIVE ParseBuffer(_)
ParseBuffer(buf) ==
    IF buf = <<>> THEN <<>>
    ELSE ParseLines(SplitLines(Head(buf))) \o ParseBuffer(Tail(buf))

\* Lines 362-363: extra_chunk is the last decoded event itself, so clearing
\* its `choices` clears them in the list handed to the calculator too.
ClearLastChoices(chunks) ==
    [chunks EXCEPT ![Len(chunks)].choices = "[]"]

\* Lines 362-367: the extra chunk, a being what _get_additional_data gave
ExtraChunk(a, extra) ==
    [kind |-> "chunk",
     extra_chunk |-> [choices |-> "[]"] @@ Overlay(a.fields, extra),
     acc |-> a.acc, tok |-> a.tok, log |-> a.log]

\* Lines 357-367, chunks being the events decoded from the buffer
FormatChunks(ep, acc, body, chunks, extra, request_latency, raises) ==
    IF chunks = <<>>
    THEN [kind |-> "None", acc |-> acc, tok |-> <<>>, log |-> <<>>]
    ELSE IF chunks[Len(chunks)].ty # "dict"
    THEN [kind |-> "raise", exc |-> "AttributeError", acc |-> acc, tok |-> <<>>,
          log |-> <<>>]
    ELSE ExtraChunk(_get_additional_data(ep, acc, body, ClearLastChoices(chunks), TRUE,
                                         request_latency, raises),
                    extra)

\* _format_stream_response: kind "None" (nothing decoded), "raise" (the last
\* decoded value is not a dict) or "chunk" (the extra chunk)
_format_stream_response(ep, acc, body, buf, extra, request_latency, raises) ==
    FormatChunks(ep, acc, body, ParseBuffer(buf), extra, request_latency, raises)

\* Line 416: "set" when the probe finds a delta content other than "", be it
\* a string or None; "unset" when it finds "" or raises (no content key, a
\* JSON array, a text that is not one JSON document)
FirstTokenProbe(chunk) ==
    LET text == IF chunk # <<>> /\ Head(chunk) = "P" THEN Tail(chunk) ELSE chunk
        body == IF text # <<>> /\ text[Len(text)] = "S"
                THEN SubSeq(text, 1, Len(text) - 1) ELSE text
    IN  IF Len(body) = 1 /\ body[1] \in {"J1", "JN"} THEN "set" ELSE "unset"

-----------------------------------------------------------------------------
(* forward_stream *)

\* Lines 389-393: the request is built, outside the try block, and the
\* stream is requested.
ForwardStream(body, extra) ==
    /\ pc = "idle"
    /\ calls' = calls + 1
    /\ op' = "stream"
    /\ additional_data' = extra
    /\ IF endpoint = "UNSET"
       THEN /\ pc' = "raised"
            /\ result' = Raise("AttributeError")
            /\ json' = body
            /\ UNCHANGED <<sent, connection>>
       ELSE /\ pc' = "transport"
            /\ json' = _format_request(endpoint, body).json
            /\ sent' = Append(sent, [url |-> _format_request(endpoint, body).url,
                                     authorization |-> _format_request(endpoint, body).authorization,
                                     json |-> _format_request(endpoint, body).json])
            /\ connection' = "open"
            /\ UNCHANGED result
    /\ UNCHANGED <<raised, upstream, logged, task_status, timeseries>>
    /\ UNCHANGED <<carbon, endpoint, now, start_time, tokenizer_calls, scheduled, usage>>
    /\ UNCHANGED streamVars
    /\ UNCHANGED docVars
    /\ UNCHANGED registryVars

\* Lines 393-396: the response headers arrived
StreamOpens(status) ==
    /\ op = "stream"
    /\ pc = "transport"
    /\ status_code = NoStatus
    /\ now' = now + 1
    /\ status_code' = status
    /\ buffer' = <<>>
    /\ start_time' = now'
    /\ first_token_time' = NoTime
    /\ UNCHANGED <<raised, connection, upstream, logged, task_status, timeseries>>
    /\ UNCHANGED <<carbon, endpoint, calls, op, pc, json, additional_data, sent, result,
                   received, out, emissions, extra_chunks, tokenizer_calls,
                   scheduled, usage>>
    /\ UNCHANGED docVars
    /\ UNCHANGED registryVars

\* Faulty variant: a timeout is reported like any other exception
StreamFailure_Always500(exc) == <<ErrorPayload(exc), 500>>

\* Lines 464-468: the pair yielded for an exception raised inside the try block
StreamFailure(exc) ==
    IF exc \in TimeoutExceptions
    THEN <<ErrorPayload(TimeoutDetail), 504>>
    ELSE <<ErrorPayload(exc), 500>>

\* The transport raises while the stream is being opened or while the next
\* chunk is awaited.
StreamTransportRaises(exc) ==
    /\ op = "stream"
    /\ pc = "transport"
    /\ now' = now + 1
    /\ raised' = exc
    /\ connection' = "closed"
    /\ out' = Append(out, StreamFailure(exc))
    /\ pc' = "done"
    /\ UNCHANGED <<upstream, logged, task_status, timeseries>>
    /\ UNCHANGED <<carbon, endpoint, calls, op, json, additional_data, sent, start_time,
                   result, status_code, received, buffer, first_token_time,
                   emissions, extra_chunks, tokenizer_calls, scheduled, usage>>
    /\ UNCHANGED docVars
    /\ UNCHANGED registryVars

\* response.aiter_raw() is exhausted
StreamEnds ==
    /\ op = "stream"
    /\ pc = "transport"
    /\ status_code # NoStatus
    /\ now' = now + 1
    /\ pc' = "done"
    /\ connection' = "closed"
    /\ UNCHANGED <<raised, upstream, logged, task_status, timeseries>>
    /\ UNCHANGED <<carbon, endpoint, calls, op, json, additional_data, sent, start_time,
                   result, tokenizer_calls, scheduled, usage>>
    /\ UNCHANGED streamVars
    /\ UNCHANGED docVars
    /\ UNCHANGED registryVars

\* Lines 399-407: what the error branch does with a chunk: the pair it yields,
\* or the exception raised
ErrorChunk(chunk, status) ==
    IF ~(Len(chunk) = 1 /\ IsJson(chunk[1]))
    THEN [kind |-> "raise", exc |-> "JSONDecodeError"]
    ELSE LET chunks == loads(chunk[1])
         IN  CASE ContainsMessage(chunks) = "TypeError" ->
                    [kind |-> "raise", exc |-> "TypeError"]
               [] ContainsMessage(chunks) = "True"
                  /\ CanIndexMessage(chunks) /\ IsLiteral(chunks.message) ->
                    [kind |-> "yield",
                     pair |-> << <<dumps([chunks EXCEPT !.message = literal_eval(chunks.message)])>>,
                                 status >>]
               [] OTHER ->
                    [kind |-> "yield", pair |-> << <<dumps(chunks)>>, status >>]

\* One iteration of the loop at line 397 on a non-2xx response
StreamErrorChunk(chunk) ==
    /\ op = "stream"
    /\ pc = "transport"
    /\ status_code # NoStatus
    /\ status_code \div 100 # 2
    /\ Len(received) < MaxChunks
    /\ now' = now + 1
    /\ received' = Append(received, chunk)
    /\ LET r == ErrorChunk(chunk, status_code)
           pairs == IF r.kind = "yield" THEN <<r.pair>> ELSE <<StreamFailure(r.exc)>>
       IN  /\ out' = out \o pairs
           /\ emissions' = Append(emissions, pairs)
           /\ pc' = IF r.kind = "yield" THEN "transport" ELSE "done"
           /\ connection' = IF r.kind = "yield" THEN connection ELSE "closed"
    /\ UNCHANGED <<raised, upstream, logged, task_status, timeseries>>
    /\ UNCHANGED <<carbon, endpoint, calls, op, json, additional_data, sent, start_time,
                   result, status_code, buffer, first_token_time, extra_chunks,
                   tokenizer_calls, scheduled, usage>>
    /\ UNCHANGED docVars
    /\ UNCHANGED registryVars

\* Faulty variant: the chunk is held back until the stream has ended
YieldChunk_HeldBack(chunk, status) == <<>>

\* Line 421: the pair yielded for a chunk without the terminal marker, while
\* the generator is suspended before it asks for the next chunk
YieldChunk(chunk, status) == << <<chunk, status>> >>

\* Lines 410-421: a chunk without the terminal marker
StreamChunk(chunk) ==
    /\ op = "stream"
    /\ pc = "transport"
    /\ status_code \div 100 = 2
    /\ Len(received) < MaxChunks
    /\ MatchStart(chunk) = 0
    /\ now' = now + 1
    /\ received' = Append(received, chunk)
    /\ buffer' = Append(buffer, chunk)
    /\ first_token_time' =
          IF first_token_time = NoTime /\ FirstTokenProbe(chunk) = "set"
          THEN now' ELSE first_token_time
    /\ out' = out \o YieldChunk(chunk, status_code)
    /\ emissions' = Append(emissions, YieldChunk(chunk, status_code))
    /\ UNCHANGED <<raised, connection, upstream, logged, task_status, timeseries>>
    /\ UNCHANGED <<carbon, endpoint, calls, op, pc, json, additional_data, sent, start_time,
                   result, status_code, extra_chunks, tokenizer_calls, scheduled,
                   usage>>
    /\ UNCHANGED docVars
    /\ UNCHANGED registryVars

\* f"data: {dumps(extra_chunk)}\n\n".encode()
UsageEvent == <<"P", "U", "S">>

\* Faulty variant: the usage event is yielded before the bytes that precede the marker
TerminalPairs_UsageFirst(chunk, status, f) ==
    IF f.kind = "None"
    THEN << <<chunk, status>> >>
    ELSE << <<UsageEvent, status>>,
            <<SubSeq(chunk, 1, MatchStart(chunk) - 1), status>>,
            <<SubSeq(chunk, MatchStart(chunk), Len(chunk)), status>> >>

\* Faulty variant: the usage event is yielded after the marker
TerminalPairs_UsageLast(chunk, status, f) ==
    IF f.kind = "None"
    THEN << <<chunk, status>> >>
    ELSE << <<SubSeq(chunk, 1, MatchStart(chunk) - 1), status>>,
            <<SubSeq(chunk, MatchStart(chunk), Len(chunk)), status>>,
            <<UsageEvent, status>> >>

\* Lines 456-462: the pairs yielded for the terminal chunk
TerminalPairs(chunk, status, f) ==
    IF f.kind = "None"
    THEN << <<chunk, status>> >>
    ELSE << <<SubSeq(chunk, 1, MatchStart(chunk) - 1), status>>,
            <<UsageEvent, status>>,
            <<SubSeq(chunk, MatchStart(chunk), Len(chunk)), status>> >>

\* Faulty variant: there is no single-chunk edge case
EdgeCase_Never(ftt, buf, last_chunks) == FALSE

\* Lines 429-430: the single-chunk edge case.  last_chunks is bytes and is
\* compared with the str "", so that comparison is always true.
EdgeCase(ftt, buf, last_chunks) == ftt = NoTime /\ Len(buf) = 0

\* Lines 441-462: the metric task is created and the pairs are yielded, f
\* being what _format_stream_response gave; when it raised, the pair of the
\* except clause is yielded instead.
Terminal(chunk, metric, f) ==
    /\ usage' = f.acc
    /\ tokenizer_calls' = tokenizer_calls \o f.tok
    /\ logged' = logged \o f.log
    /\ extra_chunks' = IF f.kind = "chunk"
                       THEN Append(extra_chunks, f.extra_chunk)
                       ELSE extra_chunks
    /\ IF f.kind = "raise"
       THEN /\ out' = Append(out, StreamFailure(f.exc))
            /\ emissions' = Append(emissions, <<StreamFailure(f.exc)>>)
            /\ pc' = "done"
            /\ connection' = "closed"
            /\ UNCHANGED <<scheduled, task_status>>
       ELSE /\ out' = out \o TerminalPairs(chunk, status_code, f)
            /\ emissions' = Append(emissions, TerminalPairs(chunk, status_code, f))
            /\ pc' = "transport"
            /\ UNCHANGED connection
            /\ scheduled' = Append(scheduled, metric)
            /\ task_status' = Append(task_status, "pending")

\* Lines 424-462: a chunk with the terminal marker
StreamTerminalChunk(chunk, raises) ==
    /\ op = "stream"
    /\ pc = "transport"
    /\ status_code \div 100 = 2
    /\ Len(received) < MaxChunks
    /\ MatchStart(chunk) # 0
    /\ now' = now + 1
    /\ received' = Append(received, chunk)
    /\ first_token_time' =
          IF EdgeCase(first_token_time, buffer, SubSeq(chunk, 1, MatchStart(chunk) - 1))
          THEN now' ELSE first_token_time
    /\ buffer' = Append(buffer, SubSeq(chunk, 1, MatchStart(chunk) - 1))
    /\ Terminal(chunk,
                IF first_token_time' # NoTime
                THEN Metric(Microseconds(first_token_time' - start_time),
                            Milliseconds(now' - start_time))
                ELSE Metric(NoTime, Milliseconds(now' - start_time)),
                _format_stream_response(endpoint, usage, json, buffer', additional_data,
                                        now' - start_time, raises))
    /\ UNCHANGED <<raised, upstream, timeseries>>
    /\ UNCHANGED <<carbon, endpoint, calls, op, json, additional_data, sent, start_time,
                   result, status_code>>
    /\ UNCHANGED docVars
    /\ UNCHANGED registryVars

-----------------------------------------------------------------------------
(* Cancellation *)

\* Faulty variant: the cancellation is caught like any other exception
ExceptException_CatchesAll(exc) == TRUE

\* Lines 292 and 466: whether `except Exception` catches the exception.
\* asyncio.CancelledError derives from BaseException, not from Exception.
ExceptException(exc) == exc # "CancelledError"

\* The task of the outer request is cancelled while the call is suspended on
\* the transport (lines 288, 393 and 397): CancelledError is raised at the
\* await and leaves the async with blocks, which close the transport call.
Cancelled ==
    /\ op \in {"request", "stream"}
    /\ pc = "transport"
    /\ raised' = "CancelledError"
    /\ connection' = "closed"
    /\ IF ~ExceptException("CancelledError")
       THEN /\ pc' = "raised"
            /\ result' = Raise("CancelledError")
            /\ UNCHANGED out
       ELSE IF op = "request"
       THEN /\ pc' = "raised"
            /\ result' = TransportFailure("CancelledError")
            /\ UNCHANGED out
       ELSE /\ pc' = "done"
            /\ out' = Append(out, StreamFailure("CancelledError"))
            /\ UNCHANGED result
    /\ UNCHANGED <<upstream, logged, task_status, timeseries>>
    /\ UNCHANGED <<carbon, endpoint, calls, op, json, additional_data, sent, now,
                   start_time, status_code, received, buffer, first_token_time,
                   emissions, extra_chunks, tokenizer_calls, scheduled, usage>>
    /\ UNCHANGED docVars
    /\ UNCHANGED registryVars

-----------------------------------------------------------------------------
(* Metrics recorder *)

\* What the store does to the task of _log_performance_metric
MetricOutcomes == {"ok", "Redis raises", "first add raises", "second add raises",
                  "both adds raise", "reset raises"}

\* Faulty variant: a time to first token that is None is recorded as zero
_log_performance_metric_NoneAsZero(metric, outcome) ==
    [added |-> { [key |-> "metrics_ts:time_to_first_token",
                  value |-> IF metric.time_to_first_token_us # NoTime
                            THEN metric.time_to_first_token_us ELSE 0],
                 [key |-> "metrics_ts:latency", value |-> metric.latency_ms] },
     status |-> "finished"]

\* _log_performance_metric: the samples added to the store and how the task
\* ends.  Redis(...) at line 243 and redis_client.reset() at line 250 are
\* outside the try blocks: an exception there ends the task.
_log_performance_metric(metric, outcome) ==
    LET ttft == IF metric.time_to_first_token_us # NoTime
                   /\ outcome \in {"ok", "second add raises"}
                THEN { [key |-> "metrics_ts:time_to_first_token",
                        value |-> metric.time_to_first_token_us] }
                ELSE {}
        latency == IF metric.latency_ms # NoTime
                      /\ outcome \in {"ok", "first add raises"}
                   THEN { [key |-> "metrics_ts:latency", value |-> metric.latency_ms] }
                   ELSE {}
    IN  CASE outcome = "Redis raises" ->
               [added |-> {}, status |-> "exception never retrieved"]
          [] outcome = "reset raises" /\ metric.time_to_first_token_us # NoTime ->
               [added |-> {}, status |-> "exception never retrieved"]
          [] OTHER -> [added |-> ttft \cup latency, status |-> "finished"]

\* Faulty variant: the coroutine is awaited, so what ends it reaches the caller
create_task_Awaited(status, outcome) ==
    IF status = "finished" THEN outcome ELSE Raise("RedisError")

\* asyncio.create_task at lines 313 and 447: the task is detached, so what
\* forward_request returns or raises (outcome) is what it is however the
\* task ends.
create_task(status, outcome) == outcome

\* The event loop runs the task of the i-th Metric of this call to its end.
MetricTaskRuns(i, outcome) ==
    /\ i \in 1..Len(scheduled)
    /\ task_status[i] = "pending"
    /\ LET t == _log_performance_metric(scheduled[i], outcome)
       IN  /\ task_status' = [task_status EXCEPT ![i] = t.status]
           /\ timeseries' = timeseries \cup t.added
           /\ result' = create_task(t.status, result)
    /\ UNCHANGED <<raised, connection, upstream, logged>>
    /\ UNCHANGED <<carbon, endpoint, calls, op, pc, json, additional_data, sent, now,
                   start_time, tokenizer_calls, scheduled, usage>>
    /\ UNCHANGED streamVars
    /\ UNCHANGED docVars
    /\ UNCHANGED registryVars

-----------------------------------------------------------------------------
(* Document manager *)

Managers == {"set", "None"}

\* The collections of the table that belong to another user and are private
ForeignCollections == {2}

NoId == 0      \* None, for a collection id

Prompts == {"", "Test prompt when disabled"}
SearchMethods == {"semantic", "multiagent"}
CollectionLists == { <<>>, <<1>>, <<2>>, <<1, 2>> }

\* What the web search manager and the parser do for _create_web_collection
WebOutcomes == {"no results", "results", "document fails"}

MultiAgentSearchNotAvailableException ==
    [kind |-> "raise", exc |-> "MultiAgentSearchNotAvailableException",
     status_code |-> 400, detail |-> PyStr("Multi agents search is not available.")]

CollectionNotFoundException(collection_id) ==
    [kind |-> "raise", exc |-> "CollectionNotFoundException", status_code |-> 404,
     detail |-> PyStr("Collection " \o ToString(collection_id) \o " not found.")]

\* The application builds the document manager from its settings, and the
\* test patches multi_agent_manager, between two searches.
SetManagers(vs, ws, ma) ==
    /\ search = NoSearch
    /\ <<vs, ws, ma>> # <<vector_store, web_search_manager, multi_agent_manager>>
    /\ vector_store' = vs
    /\ web_search_manager' = ws
    /\ multi_agent_manager' = ma
    /\ UNCHANGED <<collection_table, vector_collections, search>>
    /\ UNCHANGED <<document_table, vector_chunks, document_seq, document_call>>
    /\ UNCHANGED clientVars
    /\ UNCHANGED registryVars

\* The id the table gives to an inserted row
NewId(table) ==
    CHOOSE i \in 3..(MaxCollections + 3) :
        i \notin table /\ \A j \in 3..(i - 1) : j \in table

\* _create_web_collection: the exception raised, if any, the id returned
\* (NoId: None) and the table and the vector store afterwards
_create_web_collection(web) ==
    IF web_search_manager = "None"
    THEN [raised |-> HTTPException(400,
                        PyStr("Feature not available: web search is not initialized.")),
          id |-> NoId, table |-> collection_table, vectors |-> vector_collections]
    ELSE IF web = "no results"
    THEN [raised |-> [kind |-> "none"], id |-> NoId,
          table |-> collection_table, vectors |-> vector_collections]
    ELSE LET collection_id == NewId(collection_table)
         IN  [raised |-> IF web = "document fails"
                         THEN Raise("VectorizationFailedException")
                         ELSE [kind |-> "none"],
              id |-> collection_id,
              table |-> collection_table \cup {collection_id},
              vectors |-> vector_collections \cup {collection_id}]

\* Lines 359-369: the first collection of the list that the user cannot see
FirstNotFound(ids, table) ==
    LET missing == { i \in 1..Len(ids) : ids[i] \notin table \/ ids[i] \in ForeignCollections }
    IN  IF missing = {} THEN NoId
        ELSE ids[CHOOSE i \in missing : \A j \in missing : i <= j]

\* Faulty variant: without a multi-agent manager the searches are returned as found
multi_agent_search_Unchecked(method, searches) ==
    [kind |-> "return", searches |-> <<searches>>]

\* Lines 391-394: what becomes of the searches of the vector store
multi_agent_search(method, searches) ==
    IF method # "multiagent"
    THEN [kind |-> "return", searches |-> <<searches>>]
    ELSE IF multi_agent_manager = "None"
    THEN MultiAgentSearchNotAvailableException
    ELSE [kind |-> "return", searches |-> <<[searches EXCEPT !.ty = "multi agent list"]>>]

\* search_chunks: what it returns or raises (outcome), the caller's list
\* afterwards (collection_ids), and the table and the vector store afterwards
search_chunks(collection_ids, prompt, method, k, web_search, web, embeddings_raise) ==
    IF vector_store = "None"
    THEN [outcome |-> HTTPException(400,
                         PyStr("Feature not available: vector store is not initialized.")),
          collection_ids |-> collection_ids, web_collection_id |-> NoId,
          table |-> collection_table, vectors |-> vector_collections]
    ELSE
    LET w == IF web_search THEN _create_web_collection(web)
             ELSE [raised |-> [kind |-> "none"], id |-> NoId,
                   table |-> collection_table, vectors |-> vector_collections]
        ids == IF w.id # NoId THEN Append(collection_ids, w.id) ELSE collection_ids
        after(outcome) ==
            [outcome |-> outcome, collection_ids |-> ids, web_collection_id |-> w.id,
             table |-> w.table, vectors |-> w.vectors]
        searches == [ty |-> "list", collection_ids |-> ids, query_prompt |-> prompt,
                     k |-> IF method = "multiagent" THEN k * 4 ELSE k,
                     method |-> IF method = "multiagent" THEN "default_method" ELSE method]
    IN  IF w.raised.kind = "raise"
        THEN [outcome |-> w.raised, collection_ids |-> collection_ids,
              web_collection_id |-> w.id, table |-> w.table, vectors |-> w.vectors]
        ELSE IF FirstNotFound(ids, w.table) # NoId
        THEN after(CollectionNotFoundException(FirstNotFound(ids, w.table)))
        ELSE IF ids = <<>>
        THEN after([kind |-> "return", searches |-> <<>>])
        ELSE IF embeddings_raise
        THEN after(HTTPException(500, PyStr("ConnectError")))
        ELSE IF multi_agent_search(method, searches).kind = "raise"
        THEN after(multi_agent_search(method, searches))
        ELSE [outcome |-> multi_agent_search(method, searches),
              collection_ids |-> ids, web_collection_id |-> w.id,
              table |-> w.table \ {w.id}, vectors |-> w.vectors \ {w.id}]

\* One call of search_chunks, from its first line to its return or its raise
SearchChunks(collection_ids, prompt, method, web_search, web, embeddings_raise) ==
    /\ search = NoSearch
    /\ Cardinality(collection_table) < MaxCollections
    /\ LET r == search_chunks(collection_ids, prompt, method, 1, web_search, web,
                              embeddings_raise)
       IN  /\ search' = [passed |-> collection_ids, prompt |-> prompt, method |-> method,
                         web_search |-> web_search, web |-> web,
                         embeddings_raise |-> embeddings_raise,
                         collection_ids |-> r.collection_ids,
                         web_collection_id |-> r.web_collection_id,
                         outcome |-> r.outcome]
           /\ collection_table' = r.table
           /\ vector_collections' = r.vectors
    /\ UNCHANGED <<vector_store, web_search_manager, multi_agent_manager>>
    /\ UNCHANGED <<document_table, vector_chunks, document_seq, document_call>>
    /\ UNCHANGED clientVars
    /\ UNCHANGED registryVars

\* The caller of search_chunks has its results, or its exception
SearchDone ==
    /\ search # NoSearch
    /\ search' = NoSearch
    /\ UNCHANGED <<vector_store, web_search_manager, multi_agent_manager,
                   collection_table, vector_collections>>
    /\ UNCHANGED <<document_table, vector_chunks, document_seq, document_call>>
    /\ UNCHANGED clientVars
    /\ UNCHANGED registryVars

-----------------------------------------------------------------------------
(* Documents *)

VectorizationFailedException == Raise("VectorizationFailedException")

\* The join of lines 277-281: the row of the document, in a collection of the user
OwnRows(table, document_id) ==
    { row \in table : /\ row.id = document_id
                      /\ row.collection_id \in collection_table \ ForeignCollections }

\* delete_document: the row is deleted and the deletion committed, then the
\* vector store is asked to delete the chunks of the document; store_raises
\* tells whether that call raises (VectorStoreError stands for what the
\* client of the store raises).
delete_document(table, chunks, document_id, store_raises) ==
    IF vector_store = "None"
    THEN [outcome |-> HTTPException(400,
                         PyStr("Feature not available: vector store is not initialized.")),
          table |-> table, chunks |-> chunks]
    ELSE IF OwnRows(table, document_id) = {}
    THEN [outcome |-> Raise("DocumentNotFoundException"), table |-> table, chunks |-> chunks]
    ELSE IF store_raises
    THEN [outcome |-> Raise("VectorStoreError"),
          table |-> { row \in table : row.id # document_id }, chunks |-> chunks]
    ELSE [outcome |-> [kind |-> "return"],
          table |-> { row \in table : row.id # document_id },
          chunks |-> chunks \ {document_id}]

\* _upsert: the batches are embedded and upserted one after the other, so the
\* batches before the one that fails (fail_at, 0: none fails) are in the store
_upsert(chunks, document_id, batches, fail_at) ==
    [raised |-> fail_at # 0,
     chunks |-> IF (fail_at = 0 /\ batches > 0) \/ fail_at > 1
                THEN chunks \cup {document_id} ELSE chunks]

\* Lines 235-238: delete_document has been awaited, d being what it gave;
\* what it raised, if anything, is raised in place of VectorizationFailedException
Compensated(d) ==
    [outcome |-> IF d.outcome.kind = "raise" THEN d.outcome
                 ELSE VectorizationFailedException,
     document_id |-> NoId, table |-> d.table, chunks |-> d.chunks]

\* Lines 233-240, u being what _upsert gave
Upserted(u, document_id, committed, store_raises) ==
    IF u.raised
    THEN Compensated(delete_document(committed, u.chunks, document_id, store_raises))
    ELSE [outcome |-> [kind |-> "return", document_id |-> document_id],
          document_id |-> document_id, table |-> committed, chunks |-> u.chunks]

\* create_document: what it returns or raises (outcome), the id it returns
\* (NoId: none), and the table and the vector store afterwards
create_document(collection_id, batches, split_raises, fail_at, store_raises) ==
    IF vector_store = "None"
    THEN [outcome |-> HTTPException(400,
                         PyStr("Feature not available: vector store is not initialized.")),
          document_id |-> NoId, table |-> document_table, chunks |-> vector_chunks]
    ELSE IF collection_id \notin collection_table \ ForeignCollections
    THEN [outcome |-> Raise("CollectionNotFoundException"),
          document_id |-> NoId, table |-> document_table, chunks |-> vector_chunks]
    ELSE IF split_raises
    THEN [outcome |-> Raise("ChunkingFailedException"),
          document_id |-> NoId, table |-> document_table, chunks |-> vector_chunks]
    ELSE Upserted(_upsert(vector_chunks, document_seq + 1, batches, fail_at),
                  document_seq + 1,
                  document_table \cup {[id |-> document_seq + 1,
                                         collection_id |-> collection_id]},
                  store_raises)

\* Whether create_document inserted a row: it did when it reached line 223
Inserted(collection_id, split_raises) ==
    /\ vector_store # "None"
    /\ collection_id \in collection_table \ ForeignCollections
    /\ ~split_raises

\* One call of create_document, from its first line to its return or its
\* raise, for a document that _split cuts into `batches` batches of BATCH_SIZE
\* chunks; failing is the awaited call of _upsert that raises at batch fail_at
CreateDocument(collection_id, batches, split_raises, fail_at, failing, store_raises) ==
    /\ document_call = NoDocumentCall
    /\ document_seq < MaxDocuments
    /\ fail_at <= batches
    /\ document_call' =
          [kind |-> "create_document", collection_id |-> collection_id,
           inserted |-> IF Inserted(collection_id, split_raises)
                        THEN document_seq + 1 ELSE NoId,
           failed |-> IF fail_at # 0 THEN failing ELSE "None",
           outcome |-> create_document(collection_id, batches, split_raises, fail_at,
                                       store_raises).outcome]
    /\ document_table' = create_document(collection_id, batches, split_raises, fail_at,
                                         store_raises).table
    /\ vector_chunks' = create_document(collection_id, batches, split_raises, fail_at,
                                        store_raises).chunks
    /\ document_seq' = IF Inserted(collection_id, split_raises)
                       THEN document_seq + 1 ELSE document_seq
    /\ UNCHANGED <<vector_store, web_search_manager, multi_agent_manager,
                   collection_table, vector_collections, search>>
    /\ UNCHANGED clientVars
    /\ UNCHANGED registryVars

\* One call of delete_document by the user
DeleteDocument(document_id, store_raises) ==
    /\ document_call = NoDocumentCall
    /\ document_call' =
          [kind |-> "delete_document", collection_id |-> NoId, inserted |-> NoId,
           failed |-> "None",
           outcome |-> delete_document(document_table, vector_chunks, document_id,
                                       store_raises).outcome]
    /\ document_table' = delete_document(document_table, vector_chunks, document_id,
                                         store_raises).table
    /\ vector_chunks' = delete_document(document_table, vector_chunks, document_id,
                                        store_raises).chunks
    /\ UNCHANGED <<vector_store, web_search_manager, multi_agent_manager,
                   collection_table, vector_collections, search, document_seq>>
    /\ UNCHANGED clientVars
    /\ UNCHANGED registryVars

\* The caller has the document id, or the exception
DocumentCallDone ==
    /\ document_call # NoDocumentCall
    /\ document_call' = NoDocumentCall
    /\ UNCHANGED <<vector_store, web_search_manager, multi_agent_manager,
                   collection_table, vector_collections, search, document_table,
                   vector_chunks, document_seq>>
    /\ UNCHANGED clientVars
    /\ UNCHANGED registryVars

-----------------------------------------------------------------------------
(* Model registry *)

\* The application starts and builds its registry, once, from the routers it
\* is configured with
BuildRegistry(list) ==
    /\ routers = <<>>
    /\ list # <<>>
    /\ routers' = list
    /\ registry' = __init__(list)
    /\ lookup' = NoLookup
    /\ UNCHANGED clientVars
    /\ UNCHANGED docVars

\* A request names a model and the registry is called with it
CallRegistry(model) ==
    /\ registry.raised = "None"
    /\ lookup' = [model |-> model, result |-> __call__(registry, model)]
    /\ UNCHANGED <<routers, registry>>
    /\ UNCHANGED clientVars
    /\ UNCHANGED docVars

-----------------------------------------------------------------------------
(* Specifications *)

\* Unary calls in one request context
NextRequest ==
    \/ \E e \in Endpoints : SetEndpoint(e)
    \/ Return
    \/ \E body \in Bodies, extra \in Extras : ForwardRequest(body, extra)
    \/ \E exc \in TransportExceptions : RequestTransportRaises(exc)
    \/ \E status \in ErrorStatuses, text \in ErrorTexts : RequestUpstreamError(status, text)
    \/ \E status \in SuccessStatuses, ctype \in ContentTypes, text \in SuccessTexts,
          raises \in BOOLEAN : RequestSuccess(status, ctype, text, raises)

SpecRequest == Init /\ [][NextRequest]_vars

\* Requests that consist of one streamed call
NextStream ==
    \/ \E e \in Endpoints : SetEndpoint(e)
    \/ EndRequest
    \/ \E body \in StreamBodies, extra \in Extras : ForwardStream(body, extra)
    \/ \E status \in StreamStatuses : StreamOpens(status)
    \/ \E exc \in StreamExceptions : StreamTransportRaises(exc)
    \/ StreamEnds
    \/ \E chunk \in ChunksError : StreamErrorChunk(chunk)
    \/ \E chunk \in Chunks2xx : StreamChunk(chunk)
    \/ \E chunk \in Chunks2xx, raises \in BOOLEAN : StreamTerminalChunk(chunk, raises)

SpecStream == Init /\ [][NextStream]_vars

\* Chunks of a stream whose metric is recorded
MetricsChunks ==
    { <<"P", "J1", "S">>, <<"P", "J0", "S">>, <<"P", "M", "S">> }

\* One call per request, and the detached tasks that record its metrics
NextMetrics ==
    \/ \E e \in {"/chat/completions", "/models"} : SetEndpoint(e)
    \/ EndRequest
    \/ \E body \in Bodies : ForwardRequest(body, NoExtra)
    \/ \E exc \in TransportExceptions : RequestTransportRaises(exc)
    \/ \E status \in ErrorStatuses : RequestUpstreamError(status, T_PLAIN)
    \/ \E ctype \in ContentTypes, text \in SuccessTexts :
          RequestSuccess(200, ctype, text, FALSE)
    \/ \E body \in StreamBodies : ForwardStream(body, NoExtra)
    \/ StreamOpens(200)
    \/ \E exc \in StreamExceptions : StreamTransportRaises(exc)
    \/ StreamEnds
    \/ \E chunk \in MetricsChunks : StreamChunk(chunk)
    \/ \E chunk \in MetricsChunks : StreamTerminalChunk(chunk, FALSE)
    \/ \E i \in 1..MaxChunks, outcome \in MetricOutcomes : MetricTaskRuns(i, outcome)

SpecMetrics == Init /\ [][NextMetrics]_vars

\* Searches of one user on a document manager
NextSearch ==
    \/ \E vs \in Managers, ws \in Managers, ma \in Managers : SetManagers(vs, ws, ma)
    \/ \E collection_ids \in CollectionLists, prompt \in Prompts, method \in SearchMethods,
          web_search \in BOOLEAN, web \in WebOutcomes, embeddings_raise \in BOOLEAN :
          SearchChunks(collection_ids, prompt, method, web_search, web, embeddings_raise)
    \/ SearchDone

\* Chunks of a stream whose first token is timed.  The delta content of an
\* event is "x" (J1), "" (J0), null (JN) or missing (JD).
FirstTokenChunks ==
    { <<"P", "J1", "S">>, <<"P", "J0", "S">>, <<"P", "JN", "S">>, <<"P", "JD", "S">>,
      <<"P", "BAD", "S">>, <<"P", "M", "S">>,
      <<"P", "J1", "S", "P", "M", "S">>, <<"P", "J0", "S", "P", "M", "S">> }

\* Streams of chat completions that the transport delivers to their end
NextFirstToken ==
    \/ SetEndpoint("/chat/completions")
    \/ EndRequest
    \/ \E body \in StreamBodies : ForwardStream(body, NoExtra)
    \/ StreamOpens(200)
    \/ StreamEnds
    \/ \E chunk \in FirstTokenChunks : StreamChunk(chunk)
    \/ \E chunk \in FirstTokenChunks : StreamTerminalChunk(chunk, FALSE)

SpecFirstToken == Init /\ [][NextFirstToken]_vars

SpecSearch == Init /\ [][NextSearch]_vars

\* Unary calls of one request on a client that other requests use meanwhile
NextShared ==
    \/ \E e \in Endpoints : SetEndpoint(e)
    \/ \E e \in Endpoints : RouterSetsEndpoint(e)
    \/ Return
    \/ \E body \in Bodies : ForwardRequest(body, NoExtra)
    \/ \E exc \in TransportExceptions : RequestTransportRaises(exc)
    \/ \E ctype \in ContentTypes, text \in SuccessTexts :
          RequestSuccess(200, ctype, text, FALSE)

SpecShared == Init /\ [][NextShared]_vars

\* The event loop runs a detached task that is pending
TaskStep == \E i \in 1..MaxChunks, outcome \in MetricOutcomes : MetricTaskRuns(i, outcome)

NoTaskPending == \A i \in 1..Len(task_status) : task_status[i] # "pending"

\* Calls that may be cancelled, followed until their detached tasks have ended
NextCancel ==
    \/ SetEndpoint("/chat/completions")
    \/ NoTaskPending /\ EndRequest
    \/ \E body \in Bodies : ForwardRequest(body, NoExtra)
    \/ \E text \in SuccessTexts : RequestSuccess(200, "application/json", text, FALSE)
    \/ \E body \in StreamBodies : ForwardStream(body, NoExtra)
    \/ StreamOpens(200)
    \/ StreamEnds
    \/ \E chunk \in MetricsChunks : StreamChunk(chunk)
    \/ \E chunk \in MetricsChunks : StreamTerminalChunk(chunk, FALSE)
    \/ TaskStep
    \/ Cancelled

\* The event loop runs every task that is ready: a task created with
\* asyncio.create_task is a task of its own, which the cancellation of the
\* task that created it does not cancel.
SpecCancel == Init /\ [][NextCancel]_vars /\ WF_vars(TaskStep)

\* Chunks of a stream whose usage is computed: the event that is a JSON array
\* makes the calculator fail when it is the first of the buffer
UsageChunks ==
    { <<"P", "J1", "S">>, <<"P", "JL", "S">>, <<"P", "M", "S">> }

\* Unary calls and then a streamed call that share the accumulator of one
\* request, with a calculator that may fail
NextUsage ==
    \/ \E e \in DOMAIN USAGE_COMPLETION_ENDPOINTS : SetEndpoint(e)
    \/ Return
    \/ EndRequest
    \/ \E body \in Bodies : ForwardRequest(body, NoExtra)
    \/ \E text \in SuccessTexts, raises \in BOOLEAN :
          RequestSuccess(200, "application/json", text, raises)
    \/ \E body \in StreamBodies : ForwardStream(body, NoExtra)
    \/ StreamOpens(200)
    \/ StreamEnds
    \/ \E chunk \in UsageChunks : StreamChunk(chunk)
    \/ \E chunk \in UsageChunks, raises \in BOOLEAN : StreamTerminalChunk(chunk, raises)

SpecUsage == Init /\ [][NextUsage]_vars

\* Documents that one user creates in the collections and deletes
NextDocument ==
    \/ \E vs \in Managers : SetManagers(vs, "None", "None")
    \/ \E collection_id \in {1, 2, 9}, batches \in 0..2, split_raises \in BOOLEAN,
          fail_at \in 0..2, failing \in {"_create_embeddings", "vector_store.upsert"},
          store_raises \in BOOLEAN :
          CreateDocument(collection_id, batches, split_raises, fail_at, failing,
                         store_raises)
    \/ \E document_id \in 1..MaxDocuments, store_raises \in BOOLEAN :
          DeleteDocument(document_id, store_raises)
    \/ DocumentCallDone

SpecDocument == Init /\ [][NextDocument]_vars

\* Registries built from a list of routers and called with a string
NextRegistry ==
    \/ \E n \in 1..MaxRouters : \E list \in [1..n -> RouterPool] : BuildRegistry(list)
    \/ \E model \in LookupArguments : CallRegistry(model)

SpecRegistry == Init /\ [][NextRegistry]_vars

-----------------------------------------------------------------------------
(* Helpers of the properties *)

RECURSIVE Flatten(_)
Flatten(ss) == IF ss = <<>> THEN <<>> ELSE Head(ss) \o Flatten(Tail(ss))

\* The bytes of a sequence of pairs, concatenated
RECURSIVE BytesOf(_)
BytesOf(pairs) == IF pairs = <<>> THEN <<>> ELSE Head(pairs)[1] \o BytesOf(Tail(pairs))

\* The pairs that are not a synthesized usage event
RECURSIVE Forwarded(_)
Forwarded(pairs) ==
    IF pairs = <<>> THEN <<>>
    ELSE (IF Head(pairs)[1] = <<"P", "U", "S">> THEN <<>> ELSE <<Head(pairs)>>)
         \o Forwarded(Tail(pairs))

MarkerPositions(bytes) ==
    { i \in 1..(Len(bytes) - 1) : bytes[i] = "P" /\ bytes[i + 1] = "M" }

UsagePositions(bytes) == { i \in 1..Len(bytes) : bytes[i] = "U" }

OutBytes == BytesOf(out)
InBytes == Flatten(received)

Is2xx == status_code \div 100 = 2

-----------------------------------------------------------------------------
(* Properties of forward_stream *)

\* C1: on a 2xx stream, the pairs yielded for a chunk that holds the terminal
\* marker and for which a usage event was synthesized are exactly: the bytes
\* before the marker, the usage event `data: <json>\n\n`, the bytes from the
\* marker on; and every earlier chunk was yielded before them, in arrival order.
C1_TerminalChunkOrder ==
    \A k \in 1..Len(emissions) :
        ( /\ Is2xx
          /\ MarkerPositions(received[k]) # {}
          /\ \E i \in 1..Len(emissions[k]) : emissions[k][i][1] = <<"P", "U", "S">> )
        => /\ Len(emissions[k]) = 3
           /\ \A i \in 1..3 : emissions[k][i][2] = status_code
           /\ MarkerPositions(emissions[k][1][1]) = {}
           /\ emissions[k][2][1] = <<"P", "U", "S">>
           /\ SubSeq(emissions[k][3][1], 1, 2) = <<"P", "M">>
           /\ emissions[k][1][1] \o emissions[k][3][1] = received[k]
           /\ SubSeq(out, 1, Len(Flatten(SubSeq(emissions, 1, k))))
                 = Flatten(SubSeq(emissions, 1, k))
           /\ \A j \in 1..(k - 1) : BytesOf(Forwarded(emissions[j])) = received[j]

C1_Witness ==
    /\ received = << <<"P", "J0", "S">>, <<"P", "J1", "S">>,
                     <<"P", "J1", "S", "P", "M", "S">> >>
    /\ out = << << <<"P", "J0", "S">>, 200 >>, << <<"P", "J1", "S">>, 200 >>,
                << <<"P", "J1", "S">>, 200 >>, << <<"P", "U", "S">>, 200 >>,
                << <<"P", "M", "S">>, 200 >> >>

\* C2, as claimed: every finished stream ends with exactly one terminal
\* marker, and a synthesized usage event appears exactly once, immediately
\* before that marker.
C2_EveryStreamEndsWithOneMarker ==
    (op = "stream" /\ pc = "done")
    => /\ Cardinality(MarkerPositions(OutBytes)) = 1
       /\ \A m \in MarkerPositions(OutBytes) :
             /\ \A i \in (m + 2)..Len(OutBytes) : OutBytes[i] = "S"
             /\ \A u \in UsagePositions(OutBytes) : u = m - 2
       /\ Cardinality(UsagePositions(OutBytes)) <= 1

\* The upstream bytes hold the terminal marker exactly once, inside one chunk
OneMarkerUpstream ==
    /\ Cardinality(MarkerPositions(InBytes)) = 1
    /\ \E k \in 1..Len(received) : MarkerPositions(received[k]) # {}

\* C2, amended: a 2xx stream that finished without an error pair and whose
\* upstream bytes hold the terminal marker exactly once, inside one chunk,
\* emits exactly one terminal marker, followed only by the bytes the upstream
\* sent after it; a synthesized usage event appears exactly once, immediately
\* before the marker.
C2_WellFormedStreamEndsWithOneMarker ==
    ( /\ op = "stream" /\ pc = "done" /\ Is2xx
      /\ \A i \in 1..Len(out) : out[i][2] = status_code
      /\ OneMarkerUpstream )
    => /\ Cardinality(MarkerPositions(OutBytes)) = 1
       /\ \A m \in MarkerPositions(OutBytes), n \in MarkerPositions(InBytes) :
             /\ SubSeq(OutBytes, m, Len(OutBytes)) = SubSeq(InBytes, n, Len(InBytes))
             /\ \A u \in UsagePositions(OutBytes) :
                   u = m - 2 /\ SubSeq(OutBytes, m - 3, m - 1) = <<"P", "U", "S">>
       /\ Cardinality(UsagePositions(OutBytes)) <= 1

C2_Witness ==
    /\ op = "stream" /\ pc = "done" /\ Is2xx
    /\ \A i \in 1..Len(out) : out[i][2] = status_code
    /\ OneMarkerUpstream
    /\ Len(received) = 3
    /\ Cardinality(UsagePositions(OutBytes)) = 1

\* C3: when the transport raises during forward_stream, exactly one more pair
\* is yielded, the JSON error payload with 504 and the fixed message for a
\* timeout, with 500 and the exception's name otherwise, and nothing is
\* yielded after it.
C3_TransportFailureYieldsOnePair ==
    [][ /\ (op = "stream" /\ raised = "None" /\ raised' # "None")
           => /\ pc' = "done"
              /\ out' = Append(out,
                    IF raised' \in {"ConnectTimeout", "ReadTimeout",
                                    "WriteTimeout", "PoolTimeout"}
                    THEN << <<"{\"detail\": \"Request timed out, model is too busy.\"}">>, 504 >>
                    ELSE << <<"{\"detail\": \"" \o raised' \o "\"}">>, 500 >>)
        /\ (op = "stream" /\ pc = "done") => (pc' = "idle" /\ out' = <<>>)
      ]_vars

C3_Witness ==
    /\ op = "stream" /\ pc = "done" /\ raised = "ReadTimeout"
    /\ Len(received) = 2
    /\ Len(out) = 3
    /\ out[3][2] = 504

\* C4: forward_stream never raises to its consumer, whatever fails.
C4_StreamNeverRaises ==
    op = "stream" => (pc # "raised" /\ result.kind # "raise")

-----------------------------------------------------------------------------
(* Properties of forward_request *)

IsErrorStatus(n) == n # 0 /\ n \div 100 # 2

\* C5: an exception of the transport makes forward_request fail with 504 and
\* the fixed detail for every timeout variety, with 500 and the exception's
\* name otherwise; no response is formatted and no metric write is scheduled.
C5_TransportExceptionMapping ==
    (op = "request" /\ raised # "None")
    => /\ pc = "raised"
       /\ result.kind = "raise"
       /\ result.exc = "HTTPException"
       /\ raised \in {"ConnectTimeout", "ReadTimeout", "WriteTimeout", "PoolTimeout"}
             => /\ result.status_code = 504
                /\ result.detail = PyStr("Request timed out, model is too busy.")
       /\ raised \notin {"ConnectTimeout", "ReadTimeout", "WriteTimeout", "PoolTimeout"}
             => /\ result.status_code = 500
                /\ result.detail = PyStr(raised)
       /\ scheduled = <<>>
       /\ tokenizer_calls = <<>>
       /\ upstream = NoResponse

C5_Witness ==
    /\ op = "request" /\ raised = "PoolTimeout"
    /\ result.status_code = 504
    /\ Len(sent) = 1

\* C6: a non-2xx answer whose JSON object has a "message" that is a
\* stringified literal fails with the upstream's status and the evaluated
\* structure as detail; a "message" that is no literal is the detail itself.
C6_LiteralMessageIsEvaluated ==
    (op = "request" /\ IsErrorStatus(upstream.status_code))
    => /\ upstream.text = T_LITERAL
             => /\ result.exc = "HTTPException"
                /\ result.status_code = upstream.status_code
                /\ result.detail = PyDict("{'error': 'rate limited'}")
       /\ upstream.text = T_PLAIN
             => /\ result.exc = "HTTPException"
                /\ result.status_code = upstream.status_code
                /\ result.detail = PyStr("rate limited")

C6_Witness ==
    /\ op = "request" /\ upstream.status_code = 429
    /\ upstream.text = T_LITERAL
    /\ result.detail.ty = "dict"

\* C7: every non-2xx answer, whatever its body, fails with an HTTPException
\* that carries the upstream's status, the raw text being the detail when the
\* body is not JSON; no other exception escapes.
C7_EveryUpstreamErrorIsHTTPException ==
    (op = "request" /\ IsErrorStatus(upstream.status_code))
    => /\ result.exc = "HTTPException"
       /\ result.status_code = upstream.status_code
       /\ upstream.text = T_NOT_JSON => result.detail = PyStr(T_NOT_JSON)

\* C8: with a null entry for the endpoint in the endpoint table, the call
\* fails before anything is sent to the network.
C8_NullEntryFailsBeforeNetwork ==
    (op # "none" /\ endpoint \in Endpoints /\ ENDPOINT_TABLE[endpoint] = "None")
    => (sent = <<>> /\ pc = "raised")

\* C9: when the caller's body names the model, the body sent out names the
\* backend's model and the response names the caller's model and has an id.
C9_ModelRewrittenAndRestored ==
    ( /\ op = "request" /\ pc = "done"
      /\ "data" \in DOMAIN result.response
      /\ "model" \in DOMAIN sent[1].json )
    => /\ sent[1].json.model = BackendModel
       /\ result.response.data.model = CallerModel
       /\ "id" \in DOMAIN result.response.data

\* The rounding of the cost formula, to the nearest 1e-6
IsRoundedCost(cost, prompt, completion) ==
    /\ 10 * cost - 5 <= 4 * prompt + 2 * completion
    /\ 4 * prompt + 2 * completion <= 10 * cost + 5

RECURSIVE SumCost(_)
SumCost(details) ==
    IF details = <<>> THEN 0 ELSE Head(details).usage.cost + SumCost(Tail(details))

UsageAttached ==
    /\ op = "request" /\ pc = "done"
    /\ endpoint \in {"/chat/completions", "/embeddings"}
    /\ "data" \in DOMAIN result.response
    /\ result.response.data.usage # NoUsage

\* C10, as claimed: the usage attached to a successful unary response has
\* total = prompt + completion and a cost equal to the rounded formula
\* applied to its own token counts.
C10_AttachedCostIsFormulaOfTotals ==
    UsageAttached
    => LET u == result.response.data.usage
       IN  /\ u.total_tokens = u.prompt_tokens + u.completion_tokens
           /\ IsRoundedCost(u.cost, u.prompt_tokens, u.completion_tokens)

\* C10, amended: the usage attached has total = prompt + completion, and its
\* cost is the sum over its Details of the rounded formula applied to each
\* Detail's own token counts.
C10_AttachedCostIsSumOfDetailCosts ==
    UsageAttached
    => LET u == result.response.data.usage
       IN  /\ u.total_tokens = u.prompt_tokens + u.completion_tokens
           /\ u.cost = SumCost(u.details)
           /\ \A i \in 1..Len(u.details) :
                 /\ u.details[i].usage.total_tokens
                      = u.details[i].usage.prompt_tokens
                        + u.details[i].usage.completion_tokens
                 /\ IsRoundedCost(u.details[i].usage.cost,
                                  u.details[i].usage.prompt_tokens,
                                  u.details[i].usage.completion_tokens)

C10_Witness ==
    /\ UsageAttached
    /\ Len(result.response.data.usage.details) = 2
    /\ result.response.data.usage.cost = 0
    /\ result.response.data.usage.prompt_tokens = 2

-----------------------------------------------------------------------------
(* Properties of the calculator *)

BoundFields == {"kg_min", "kg_max", "kwh_min", "kwh_max"}

\* The sum of the non-null contributions of the Details to one carbon bound
RECURSIVE SumBound(_, _)
SumBound(details, f) ==
    IF details = <<>> THEN 0
    ELSE (IF Head(details).usage.carbon[f] # NoValue
          THEN Head(details).usage.carbon[f] ELSE 0)
         + SumBound(Tail(details), f)

Contributed(details, f) ==
    \E i \in 1..Len(details) : details[i].usage.carbon[f] # NoValue

\* C11: each of the four carbon bounds of the accumulator is absent (and not
\* zero) as long as no Detail contributed a non-null value to it; once a
\* contribution exists the bound is the sum of the non-null contributions, and
\* it never decreases when later Details are added.
C11_CarbonBoundsAccumulate ==
    /\ [](\A f \in BoundFields :
            IF Contributed(usage.details, f)
            THEN usage.carbon[f] = SumBound(usage.details, f)
            ELSE usage.carbon[f] = NoValue /\ usage.carbon[f] # 0)
    /\ [][\A f \in BoundFields :
            (usage.carbon[f] # NoValue /\ Len(usage'.details) >= Len(usage.details))
            => usage'.carbon[f] >= usage.carbon[f]]_vars

C11_Witness ==
    /\ carbon = "zone unknown"
    /\ Len(usage.details) = 2
    /\ usage.carbon.kg_min = NoValue
    /\ usage.carbon.kwh_min = SumBound(usage.details, "kwh_min")
    /\ usage.carbon.kwh_min > usage.details[1].usage.carbon.kwh_min

\* C12: when an exception is raised inside the usage computation, the
\* calculator returns None: the unary response is still delivered, and it
\* carries no usage field.
C12_FailedUsageIsOmitted ==
    (op = "request" /\ logged # <<>>)
    => /\ pc = "done"
       /\ result.kind = "return"
       /\ "data" \in DOMAIN result.response
       /\ result.response.data.usage = NoUsage

-----------------------------------------------------------------------------
(* Properties of the metrics recorder *)

\* C13: however the detached task of a Metric ends, with the samples added,
\* with an add that failed or with an exception that ended the task, the step
\* changes nothing of what the caller receives: the response or exception of
\* forward_request and the pairs yielded by forward_stream stay what they were.
C13_MetricFailureIsInvisible ==
    [][ task_status' # task_status /\ Len(task_status') = Len(task_status)
        => UNCHANGED <<op, pc, result, out, emissions, extra_chunks, usage, json>>
      ]_vars

C13_Witness ==
    /\ op = "stream" /\ pc = "done"
    /\ task_status = <<"exception never retrieved">>
    /\ timeseries = {}
    /\ Len(received) = 2
    /\ out = << << <<"P", "J1", "S">>, 200 >>, << <<>>, 200 >>,
                << <<"P", "U", "S">>, 200 >>, << <<"P", "M", "S">>, 200 >> >>

-----------------------------------------------------------------------------
(* Properties of the stream formatter *)

Malformed == <<"P", "BAD", "S">>

\* The chunks received before the k-th, and the bytes of the k-th before the
\* terminal marker
BufferAt(k) ==
    SubSeq(received, 1, k - 1)
    \o << SubSeq(received[k], 1, MatchStart(received[k]) - 1) >>

WithoutMalformed(chunks) == SelectSeq(chunks, LAMBDA c : c # Malformed)

\* The k-th chunk is the first that holds the terminal marker, and a chunk
\* before it is an event whose JSON does not decode
FirstTerminalAfterMalformed(k) ==
    /\ Is2xx
    /\ MatchStart(received[k]) # 0
    /\ \A j \in 1..(k - 1) : MatchStart(received[j]) = 0
    /\ \E j \in 1..(k - 1) : received[j] = Malformed

\* C14: in a 2xx stream, an event whose JSON does not decode is dropped and
\* the stream goes on: when the events that remain end with an object, the
\* chunk with the terminal marker is answered with the bytes before the
\* marker, a usage event and the marker, no error pair is yielded, and when
\* the usage is computed the tokenizer is given the events that remain without
\* the malformed ones.
C14_MalformedLineIsDropped ==
    \A k \in 1..Len(emissions) :
        LET events == ParseBuffer(WithoutMalformed(BufferAt(k)))
        IN  ( /\ FirstTerminalAfterMalformed(k)
              /\ events # <<>>
              /\ events[Len(events)].ty = "dict" )
            => /\ Len(emissions[k]) = 3
               /\ emissions[k][2][1] = <<"P", "U", "S">>
               /\ MarkerPositions(emissions[k][3][1]) # {}
               /\ \A j \in 1..k : \A i \in 1..Len(emissions[j]) :
                     emissions[j][i][2] = status_code
               /\ Len(extra_chunks) >= 1
               /\ (tokenizer_calls # <<>> /\ logged = <<>>)
                     => /\ Len(tokenizer_calls[1]) = Len(events)
                        /\ \A i \in 1..(Len(events) - 1) :
                              tokenizer_calls[1][i] = events[i]
                        /\ tokenizer_calls[1][Len(events)].id = events[Len(events)].id

C14_Witness ==
    /\ received = << <<"P", "J1", "S">>, Malformed, <<"P", "J1", "S", "P", "M", "S">> >>
    /\ Len(out) = 5
    /\ out[4][1] = <<"P", "U", "S">>
    /\ Len(tokenizer_calls) = 1
    /\ Len(tokenizer_calls[1]) = 2

\* The first chunk of a 2xx stream holds the terminal marker after at least
\* one event that decodes to an object
SingleChunkStream ==
    /\ Is2xx
    /\ Len(emissions) >= 1
    /\ MatchStart(received[1]) > 1
    /\ LET events == ParseBuffer(BufferAt(1))
       IN  events # <<>> /\ events[Len(events)].ty = "dict"

\* C15: when the very first chunk of a 2xx stream holds the terminal marker
\* after at least one decodable event, the Metric scheduled for it carries a
\* time to first token (not None), and a usage event is yielded between the
\* bytes before the marker and the marker.
C15_SingleChunkStreamIsTimed ==
    SingleChunkStream
    => /\ Len(scheduled) >= 1
       /\ scheduled[1].time_to_first_token_us # NoTime
       /\ scheduled[1].time_to_first_token_us >= 0
       /\ scheduled[1].time_to_first_token_us <= 1000 * scheduled[1].latency_ms
       /\ Len(emissions[1]) = 3
       /\ emissions[1][2] = << <<"P", "U", "S">>, status_code >>
       /\ Len(extra_chunks) >= 1

C15_Witness ==
    /\ received = << <<"P", "J1", "S", "P", "M", "S">> >>
    /\ scheduled = << [time_to_first_token_us |-> 1000000, latency_ms |-> 1000,
                       model_name |-> "backend-name", api_url |-> "http://backend/"] >>
    /\ out = << << <<"P", "J1", "S">>, 200 >>, << <<"P", "U", "S">>, 200 >>,
                << <<"P", "M", "S">>, 200 >> >>

\* The chunks received so far that hold the terminal marker
TerminalChunks == { k \in 1..Len(emissions) : MatchStart(received[k]) # 0 }

HasUsageEvent(pairs) == \E i \in 1..Len(pairs) : pairs[i][1] = <<"P", "U", "S">>

\* C16: on a 2xx stream, a synthesized event is yielded for the chunk with the
\* terminal marker only if the usage computation produced a Usage value; when
\* it yields nothing (no decodable event in the buffer, an endpoint that
\* bears no usage, or a computation that failed) no synthesized event is
\* yielded and the chunk is forwarded once, unmodified.
C16_SynthesizedOnlyWithUsage ==
    \A k \in TerminalChunks :
        (Is2xx /\ Cardinality(TerminalChunks) = 1)
        => /\ HasUsageEvent(emissions[k])
                 => /\ Len(extra_chunks) = 1
                    /\ extra_chunks[1].usage # NoUsage
                    /\ logged = <<>>
           /\ ( \/ ParseBuffer(BufferAt(k)) = <<>>
                \/ endpoint \notin DOMAIN USAGE_COMPLETION_ENDPOINTS
                \/ logged # <<>> )
                 => emissions[k] = << <<received[k], status_code>> >>

-----------------------------------------------------------------------------
(* Properties of the unary formatter *)

JsonContentTypes == {"application/json", "application/json; charset=utf-8"}

\* C17: a unary response whose content type is JSON, with or without
\* parameters such as a charset, is decoded, merged with model, id and the
\* usage if computed, then with the caller-supplied fields, and returned with
\* the original status code; a response of another content type is returned
\* unmodified; and each successful unary call to a usage-bearing endpoint
\* appends exactly one Detail to the accumulator.
C17_JsonResponsesAreMerged ==
    /\ []( (op = "request" /\ pc = "done")
           => /\ upstream.content_type \in JsonContentTypes
                    => /\ "data" \in DOMAIN result.response
                       /\ result.response.status_code = upstream.status_code
                       /\ {"model", "id"} \subseteq DOMAIN result.response.data
                       /\ "model" \in DOMAIN additional_data
                             => result.response.data.model = additional_data.model
              /\ upstream.content_type \notin JsonContentTypes
                    => result.response = upstream )
    /\ [][ ( /\ op = "request" /\ pc = "transport" /\ pc' = "done"
             /\ endpoint \in DOMAIN USAGE_COMPLETION_ENDPOINTS )
           => Len(usage'.details) = Len(usage.details) + 1 ]_vars

-----------------------------------------------------------------------------
(* Properties of the document manager *)

\* A multi-agent search was made while multi_agent_manager is unset, on a
\* list of collections the user can see, and nothing else failed: the vector
\* store is there, the web search, if asked for, was made and its results
\* were stored, and the embedding of the prompt was computed
MultiAgentSearchWhileUnset ==
    /\ search.outcome.kind # "none"
    /\ search.method = "multiagent"
    /\ multi_agent_manager = "None"
    /\ vector_store = "set"
    /\ search.web_search => (web_search_manager = "set" /\ search.web # "document fails")
    /\ ~search.embeddings_raise
    /\ \A i \in 1..Len(search.passed) :
          search.passed[i] \in {1, 2} \ ForeignCollections

\* C18, as claimed: a multi-agent search while multi_agent_manager is unset
\* fails with status 400 and the detail `Multi agents search is not
\* available.`, for every prompt and every list of accessible collections.
C18_MultiAgentUnsetAlwaysFails ==
    MultiAgentSearchWhileUnset
    => /\ search.outcome.kind = "raise"
       /\ search.outcome.status_code = 400
       /\ search.outcome.detail = PyStr("Multi agents search is not available.")

\* C18, amended: a multi-agent search while multi_agent_manager is unset, on
\* a list of accessible collections, fails with status 400 and the detail
\* `Multi agents search is not available.` and returns no search results, for
\* every prompt, when there is a collection to search: the list is not empty
\* or the web search added a collection to it.  With no collection to search
\* it returns an empty list of results and raises nothing.
C18_MultiAgentUnsetFailsOnCollections ==
    MultiAgentSearchWhileUnset
    => IF search.collection_ids # <<>>
       THEN /\ search.outcome.kind = "raise"
            /\ search.outcome.exc = "MultiAgentSearchNotAvailableException"
            /\ search.outcome.status_code = 400
            /\ search.outcome.detail = PyStr("Multi agents search is not available.")
            /\ "searches" \notin DOMAIN search.outcome
       ELSE search.outcome = [kind |-> "return", searches |-> <<>>]

C18_Witness ==
    /\ MultiAgentSearchWhileUnset
    /\ search.passed = <<1>>
    /\ ~search.web_search
    /\ search.prompt = "Test prompt when disabled"
    /\ search.outcome.exc = "MultiAgentSearchNotAvailableException"

-----------------------------------------------------------------------------
(* Properties of the first-token time *)

\* The delta content of the event a chunk consists of: "x", "", "null",
\* "no content", or "undecodable" when the chunk is not one event that
\* decodes to an object
DeltaContent(chunk) ==
    IF /\ Len(chunk) = 3 /\ chunk[1] = "P" /\ chunk[3] = "S"
       /\ chunk[2] \in {"J1", "J0", "JN", "JD"}
    THEN CASE chunk[2] = "J1" -> "x"
           [] chunk[2] = "J0" -> ""
           [] chunk[2] = "JN" -> "null"
           [] OTHER -> "no content"
    ELSE "undecodable"

\* A step of forward_stream that receives one more chunk of a 2xx stream
ReceivesChunk ==
    /\ op = "stream" /\ Is2xx
    /\ Len(received') = Len(received) + 1

\* C19: the first-token time is set at most once per stream and never
\* overwritten; before the chunk with the terminal marker it is set only by a
\* chunk whose decoded delta content is a non-empty string; a chunk whose
\* delta content is null, missing, empty or undecodable leaves it unset, and
\* is forwarded all the same.
C19_FirstTokenSetByContentOnly ==
    [][ ReceivesChunk
        => LET chunk == received'[Len(received')]
           IN  /\ first_token_time # NoTime => first_token_time' = first_token_time
               /\ MatchStart(chunk) = 0
                     => /\ out' = Append(out, <<chunk, status_code>>)
                        /\ (first_token_time = NoTime /\ first_token_time' # NoTime)
                              => DeltaContent(chunk) = "x"
                        /\ DeltaContent(chunk) \in {"", "null", "no content", "undecodable"}
                              => first_token_time' = first_token_time
      ]_vars

\* C20: at the chunk with the terminal marker the first-token time is set by
\* the single-chunk heuristic exactly when it was never set, the buffer is
\* empty and the bytes before the marker are not empty; when those bytes are
\* empty the time stays unset and the Metric carries no time to first token.
C20_EdgeCaseNeedsPreMarkerBytes ==
    [][ (ReceivesChunk /\ MatchStart(received'[Len(received')]) # 0)
        => LET chunk == received'[Len(received')]
           IN  /\ first_token_time' # first_token_time
                     <=> ( /\ first_token_time = NoTime
                           /\ buffer = <<>>
                           /\ MatchStart(chunk) > 1 )
               /\ (first_token_time = NoTime /\ MatchStart(chunk) = 1)
                     => /\ first_token_time' = NoTime
                        /\ Len(scheduled') = Len(scheduled) + 1
                        /\ scheduled'[Len(scheduled')].time_to_first_token_us = NoTime
      ]_vars

-----------------------------------------------------------------------------
(* Properties of the error branch of forward_stream *)

\* What the error branch is to forward for a chunk: the chunk re-encoded, its
\* "message" evaluated when it is a stringified literal
Reencoded(chunk) ==
    CASE chunk = <<"{\"message\": \"{'error':'rate limited'}\"}">>
            -> <<"{\"message\": {\"error\": \"rate limited\"}}">>
      [] OTHER -> chunk

\* C21: on a stream whose transport status is not 2xx, every chunk received
\* is forwarded as one pair that carries the transport status, its "message"
\* evaluated as a literal when that succeeds and left as is otherwise; nothing
\* is buffered, no usage event is synthesized, the tokenizer is not called and
\* no metric is scheduled.
C21_ErrorStreamForwardsEveryChunk ==
    (op = "stream" /\ status_code # NoStatus /\ ~Is2xx)
    => /\ \A k \in 1..Len(emissions) :
             /\ Len(emissions[k]) = 1
             /\ emissions[k][1][2] = status_code
             /\ received[k] \in { <<"{\"message\": \"{'error':'rate limited'}\"}">>,
                                 <<"{\"message\": \"rate limited\"}">>,
                                 <<"{\"error\": \"rate limited\"}">> }
                   => emissions[k][1][1] = Reencoded(received[k])
       /\ buffer = <<>>
       /\ extra_chunks = <<>>
       /\ tokenizer_calls = <<>>
       /\ scheduled = <<>>
       /\ UsagePositions(OutBytes) = {}

-----------------------------------------------------------------------------
(* Properties of the normal branch of forward_stream *)

\* C22: in a 2xx stream, every chunk without the terminal marker is appended
\* to the assembly buffer and yielded byte for byte, paired with the transport
\* status code, in the step that received it, before the next chunk is asked
\* of the transport: at any moment every chunk received so far has been
\* yielded, and the stream need not have ended.
C22_ChunkForwardedAtOnce ==
    /\ []( (op = "stream" /\ Is2xx)
           => /\ Len(emissions) = Len(received)
              /\ Len(buffer) = Len(received)
              /\ \A k \in 1..Len(received) :
                    MatchStart(received[k]) = 0
                    => /\ buffer[k] = received[k]
                       /\ emissions[k] = << <<received[k], status_code>> >> )
    /\ [][ (ReceivesChunk /\ MatchStart(received'[Len(received')]) = 0)
           => /\ buffer' = Append(buffer, received'[Len(received')])
              /\ out' = Append(out, <<received'[Len(received')], status_code>>)
              /\ pc' = "transport" ]_vars

C22_Witness ==
    /\ op = "stream" /\ pc = "transport" /\ Is2xx
    /\ received = << <<"P", "J1", "S">>, <<"P", "J1", "S", "P">> >>
    /\ buffer = received
    /\ out = << << <<"P", "J1", "S">>, 200 >>, << <<"P", "J1", "S", "P">>, 200 >> >>

\* C23: in a 2xx stream, the tokenizer is called on the full sequence of
\* events decoded from the buffer, as the backend emitted them: every event,
\* the last one included, has its original `choices`; only the synthesized
\* usage event has its `choices` cleared.
C23_TokenizerSeesOriginalEvents ==
    (op = "stream" /\ Is2xx /\ Len(tokenizer_calls) = 1 /\ Cardinality(TerminalChunks) = 1)
    => \A k \in TerminalChunks :
          /\ tokenizer_calls[1] = ParseBuffer(BufferAt(k))
          /\ \A i \in 1..Len(tokenizer_calls[1]) :
                tokenizer_calls[1][i].choices
                   = ParseBuffer(BufferAt(k))[i].choices
          /\ Len(extra_chunks) = 1
          /\ extra_chunks[1].choices = "[]"

\* The complete `data: <json>` events in the bytes the upstream sent before
\* the terminal marker of the k-th chunk, whatever the chunk boundaries
EventsSentBefore(k) == ParseLines(SplitLines(Flatten(BufferAt(k))))

\* The bytes are a sequence of whole events `data: <text>\n\n`
WellFramed(bytes) ==
    /\ Len(bytes) % 3 = 0
    /\ \A i \in 1..Len(bytes) :
          CASE i % 3 = 1 -> bytes[i] = "P"
            [] i % 3 = 0 -> bytes[i] = "S"
            [] OTHER -> bytes[i] \notin {"P", "S", "M"}

\* C24: the sequence of events reconstructed at the chunk with the terminal
\* marker, which is what the tokenizer is given, holds every complete event
\* the upstream sent before the marker, in order, wherever the boundaries of
\* the chunks fall in a sequence of whole events: an event split across two
\* chunks is one event.
C24_EventsSurviveChunkBoundaries ==
    ( /\ op = "stream" /\ Is2xx
      /\ Len(tokenizer_calls) = 1 /\ logged = <<>>
      /\ Cardinality(TerminalChunks) = 1 )
    => \A k \in TerminalChunks :
          WellFramed(Flatten(BufferAt(k)))
          =>
          /\ Len(tokenizer_calls[1]) = Len(EventsSentBefore(k))
          /\ \A i \in 1..Len(tokenizer_calls[1]) :
                /\ tokenizer_calls[1][i].ty = EventsSentBefore(k)[i].ty
                /\ DOMAIN tokenizer_calls[1][i] = DOMAIN EventsSentBefore(k)[i]

\* The bytes of the terminal marker are split across the chunks j and j + 1
SplitMarkerAt(j) ==
    /\ j + 1 <= Len(received)
    /\ received[j][Len(received[j])] = "P"
    /\ received[j + 1][1] = "M"
    /\ MarkerPositions(received[j]) = {}
    /\ MarkerPositions(received[j + 1]) = {}

\* C25: the terminal marker is looked for in each chunk on its own: when its
\* bytes are split across two consecutive chunks of a 2xx stream, both chunks
\* are buffered and yielded unchanged, and when no chunk holds the whole
\* marker the stream ends with no usage event synthesized, no call of the
\* tokenizer and no metric scheduled.
C25_SplitMarkerIsNotTerminal ==
    (op = "stream" /\ Is2xx)
    => \A j \in 1..Len(received) :
          SplitMarkerAt(j)
          => /\ MarkerPositions(InBytes) # {}
             /\ \A i \in {j, j + 1} :
                   /\ buffer[i] = received[i]
                   /\ emissions[i] = << <<received[i], status_code>> >>
             /\ (\A i \in 1..Len(received) : MarkerPositions(received[i]) = {})
                   => /\ extra_chunks = <<>>
                      /\ tokenizer_calls = <<>>
                      /\ scheduled = <<>>
                      /\ UsagePositions(OutBytes) = {}
                      /\ BytesOf(out) = InBytes \/ raised # "None"

C25_Witness ==
    /\ op = "stream" /\ pc = "done" /\ raised = "None"
    /\ received = << <<"P", "J1", "S", "P">>, <<"M", "S">> >>
    /\ SplitMarkerAt(1)
    /\ out = << << <<"P", "J1", "S", "P">>, 200 >>, << <<"M", "S">>, 200 >> >>
    /\ scheduled = <<>>

-----------------------------------------------------------------------------
(* Properties of the scheduling of the metric writes *)

\* C26: a forward_request that succeeds schedules exactly one metric task,
\* whose Metric carries the latency in milliseconds and no time to first
\* token; a forward_request that fails schedules none; and forward_request
\* returns while the task is still pending, with nothing written to the store.
C26_OneDetachedWritePerSuccess ==
    /\ []( op = "request"
           => IF pc = "done"
              THEN /\ result.kind = "return"
                   /\ Len(scheduled) = 1
                   /\ Len(task_status) = 1
                   /\ scheduled[1].time_to_first_token_us = NoTime
                   /\ scheduled[1].latency_ms = 1000 * (now - start_time)
                   /\ scheduled[1].latency_ms >= 1000
              ELSE scheduled = <<>> /\ task_status = <<>> /\ timeseries = {} )
    /\ [][ (op = "request" /\ pc = "transport" /\ pc' = "done")
           => /\ task_status' = <<"pending">>
              /\ timeseries' = {} ]_vars

C26_Witness ==
    /\ op = "request" /\ pc = "done"
    /\ result.kind = "return"
    /\ "data" \in DOMAIN result.response
    /\ scheduled = << [time_to_first_token_us |-> NoTime, latency_ms |-> 1000,
                       model_name |-> "backend-name", api_url |-> "http://backend/"] >>
    /\ task_status = <<"pending">>
    /\ timeseries = {}

\* The step runs the detached task of the i-th Metric to its end
TaskRuns(i) ==
    /\ i \in 1..Len(task_status)
    /\ Len(task_status') = Len(task_status)
    /\ task_status[i] = "pending"
    /\ task_status'[i] # "pending"

\* C27: in a 2xx stream one metric task is scheduled for each chunk with the
\* terminal marker that is processed, and for no other chunk; its Metric
\* carries the latency and, when the first-token time was set, the time to
\* first token; when it was never set the task is scheduled all the same, the
\* Metric has no time to first token, and the task adds no sample but the
\* latency to the store.
C27_OneWritePerTerminalChunk ==
    /\ []( (op = "stream" /\ Is2xx)
           => Len(scheduled)
                 = Cardinality({ k \in 1..Len(emissions) :
                                    /\ MarkerPositions(received[k]) # {}
                                    /\ \A i \in 1..Len(emissions[k]) :
                                          emissions[k][i][2] = status_code }) )
    /\ [][ ReceivesChunk
           => IF MarkerPositions(received'[Len(received')]) # {} /\ pc' = "transport"
              THEN /\ Len(scheduled') = Len(scheduled) + 1
                   /\ SubSeq(scheduled', 1, Len(scheduled)) = scheduled
                   /\ task_status' = Append(task_status, "pending")
                   /\ scheduled'[Len(scheduled')].latency_ms = 1000 * (now' - start_time)
                   /\ scheduled'[Len(scheduled')].time_to_first_token_us
                         = IF first_token_time' # NoTime
                           THEN 1000000 * (first_token_time' - start_time)
                           ELSE NoTime
              ELSE scheduled' = scheduled /\ task_status' = task_status ]_vars
    /\ [][ \A i \in 1..Len(task_status) :
             (TaskRuns(i) /\ scheduled[i].time_to_first_token_us = NoTime)
             => /\ timeseries' \subseteq
                      timeseries \cup { [key |-> "metrics_ts:latency",
                                          value |-> scheduled[i].latency_ms] }
                /\ \A sample \in timeseries' \ timeseries :
                      sample.key # "metrics_ts:time_to_first_token" ]_vars

C27_Witness ==
    /\ op = "stream" /\ Is2xx
    /\ received = << <<"P", "J0", "S">>, <<"P", "M", "S">> >>
    /\ Len(scheduled) = 1
    /\ scheduled[1].time_to_first_token_us = NoTime
    /\ scheduled[1].latency_ms = 2000
    /\ task_status = <<"finished">>
    /\ timeseries = { [key |-> "metrics_ts:latency", value |-> 2000] }

-----------------------------------------------------------------------------
(* Properties of concurrent requests on one client *)

\* C28: the endpoint that decides and computes the usage of a request is the
\* endpoint the request was issued for, the one its URL was built from,
\* whatever other requests do to the client while it is suspended on the
\* transport: a JSON answer to a chat completion carries a usage whose last
\* Detail counts the completion with the tokenizer, a JSON answer to an
\* embedding carries a usage whose last Detail has no completion tokens, and
\* an answer of an endpoint that bears no usage carries none.
C28_EndpointIsPerRequest ==
    (op = "request" /\ pc = "done" /\ "data" \in DOMAIN result.response)
    => LET u == result.response.data.usage
       IN  /\ sent[1].url = "http://backend/v1/chat/completions"
                 => /\ u # NoUsage
                    /\ Len(tokenizer_calls) = 1
                    /\ u.details[Len(u.details)].usage.completion_tokens
                          = IF upstream.text = R_WITH_ID THEN 1 ELSE 0
           /\ sent[1].url = "http://backend/v1/embeddings"
                 => /\ u # NoUsage
                    /\ tokenizer_calls = <<>>
                    /\ u.details[Len(u.details)].usage.completion_tokens = 0
           /\ sent[1].url \in {"http://backend/v1/models", "http://backend/"}
                 => u = NoUsage /\ tokenizer_calls = <<>>

-----------------------------------------------------------------------------
(* Properties of the calculator on the kinds of endpoint *)

\* A unary call gets its answer: the step in which the response is formatted
AnswerFormatted == op = "request" /\ pc = "transport" /\ pc' = "done"

\* C29: for an endpoint that bears no usage the calculator returns None (the
\* response carries no usage), calls no tokenizer, logs nothing and leaves the
\* accumulator of the request as it was; for a usage-bearing endpoint that
\* carries no completion tokens, the Detail appended has completion_tokens = 0
\* and total_tokens = prompt_tokens, the completion tokens of the accumulator
\* do not change and the completion tokenizer is not called.
C29_UsagePerKindOfEndpoint ==
    [][ AnswerFormatted
        => /\ endpoint \notin {"/chat/completions", "/embeddings"}
                 => /\ usage' = usage
                    /\ tokenizer_calls' = tokenizer_calls
                    /\ logged' = logged
                    /\ "data" \in DOMAIN result'.response
                          => result'.response.data.usage = NoUsage
           /\ endpoint = "/embeddings"
                 => /\ tokenizer_calls' = tokenizer_calls
                    /\ usage'.completion_tokens = usage.completion_tokens
                    /\ Len(usage'.details) \in {Len(usage.details), Len(usage.details) + 1}
                    /\ Len(usage'.details) = Len(usage.details) + 1
                          => LET detail == usage'.details[Len(usage'.details)]
                             IN  /\ detail.usage.completion_tokens = 0
                                 /\ detail.usage.prompt_tokens > 0
                                 /\ detail.usage.total_tokens = detail.usage.prompt_tokens
                                 /\ usage'.total_tokens
                                       = usage.total_tokens + detail.usage.prompt_tokens
      ]_vars

C29_Witness ==
    /\ op = "request" /\ pc = "done"
    /\ endpoint = "/embeddings"
    /\ upstream.text = R_WITH_ID
    /\ upstream.content_type = "application/json"
    /\ Len(usage.details) = 2
    /\ usage.details[2].usage.completion_tokens = 0
    /\ usage.details[2].usage.total_tokens = usage.details[2].usage.prompt_tokens
    /\ usage.completion_tokens = 1
    /\ tokenizer_calls = <<>>

-----------------------------------------------------------------------------
(* Properties of the cancellation *)

\* C30: when the outer request is cancelled while forward_request or
\* forward_stream is suspended on the transport, the transport call is
\* closed, the cancellation leaves the call as CancelledError and not as a
\* 504 or 500 (no pair is yielded for it, no HTTPException is raised), the
\* metric tasks already scheduled are left as they were, and each of them
\* that was pending runs to its end.
C30_CancellationClosesTransport ==
    /\ []( raised = "CancelledError"
           => /\ connection = "closed"
              /\ pc = "raised"
              /\ result = [kind |-> "raise", exc |-> "CancelledError",
                            status_code |-> 0, detail |-> PyNone]
              /\ \A i \in 1..Len(out) : out[i][2] \notin {500, 504} )
    /\ [][ (raised # "CancelledError" /\ raised' = "CancelledError")
           => /\ connection = "open"
              /\ out' = out
              /\ scheduled' = scheduled
              /\ task_status' = task_status
              /\ timeseries' = timeseries ]_vars
    /\ ( (raised = "CancelledError" /\ ~NoTaskPending)
         ~> (raised = "CancelledError" /\ NoTaskPending /\ task_status # <<>>) )

C30_Witness ==
    /\ op = "stream"
    /\ raised = "CancelledError"
    /\ connection = "closed"
    /\ received = << <<"P", "J1", "S">>, <<"P", "M", "S">> >>
    /\ Len(out) = 4
    /\ task_status = <<"finished">>
    /\ Cardinality(timeseries) = 2

-----------------------------------------------------------------------------
(* C31 *)

\* The sum of a token count over the Details
RECURSIVE SumTokens(_, _)
SumTokens(details, f) ==
    IF details = <<>> THEN 0
    ELSE Head(details).usage[f] + SumTokens(Tail(details), f)

TokenFields == {"prompt_tokens", "completion_tokens", "total_tokens"}

\* The computation of this step failed: its except clause logged
UsageFailed == Len(logged') > Len(logged)

\* The request is over and its context, with the accumulator, is discarded
ContextDiscarded == op = "stream" /\ op' = "none"

\* C31: at every point of a request each token total of the accumulator is
\* the sum of that field over its Details and total_tokens is prompt_tokens
\* plus completion_tokens; within a request a step changes the accumulator
\* only by appending one Detail after those of the earlier computations; and
\* a computation that fails leaves the accumulator as it was.
C31_TotalsAreSumsOfDetails ==
    /\ [](/\ \A f \in TokenFields : usage[f] = SumTokens(usage.details, f)
          /\ usage.total_tokens = usage.prompt_tokens + usage.completion_tokens)
    /\ [][\/ usage' = usage
          \/ ContextDiscarded /\ usage' = EmptyUsage
          \/ /\ ~UsageFailed
             /\ Len(usage'.details) = Len(usage.details) + 1
             /\ SubSeq(usage'.details, 1, Len(usage.details)) = usage.details]_vars
    /\ [][UsageFailed => usage' = usage]_vars

\* A unary call and then a stream have each added a Detail, with completion
\* tokens counted, and a computation of the stream has failed in between
C31_Witness ==
    /\ op = "stream"
    /\ calls = 2
    /\ Len(usage.details) = 2
    /\ Len(tokenizer_calls) = 1
    /\ logged # <<>>
    /\ usage.completion_tokens > 0
    /\ usage.total_tokens > usage.prompt_tokens

-----------------------------------------------------------------------------
(* C32 *)

\* The stream was answered with a 2xx status and is over, and the transport
\* raised nothing
EndedWithoutTransportFailure ==
    op = "stream" /\ pc = "done" /\ Is2xx /\ raised = "None"

\* C32: when a 2xx stream has ended without a failure of the transport, the
\* bytes yielded, the synthesized usage events left out, are the bytes
\* received, however the upstream cut them into chunks.
C32_StreamIsPassedThrough ==
    EndedWithoutTransportFailure => BytesOf(Forwarded(out)) = InBytes

-----------------------------------------------------------------------------
(* C33 *)

\* create_document committed a row and then its _upsert failed
UpsertFailedAfterCommit ==
    /\ document_call.kind = "create_document"
    /\ document_call.inserted # NoId
    /\ document_call.failed # "None"

\* C33: when the embeddings or the upsert fail in create_document, the call
\* raises VectorizationFailedException and the document it had committed is
\* neither in the table nor in the vector store afterwards.
C33_FailedDocumentIsRemoved ==
    UpsertFailedAfterCommit =>
        /\ document_call.outcome = VectorizationFailedException
        /\ \A row \in document_table : row.id # document_call.inserted
        /\ document_call.inserted \notin vector_chunks

-----------------------------------------------------------------------------
(* C34 *)

\* search_chunks has finished and its web search had created a collection
WebCollectionCreated ==
    /\ search # NoSearch
    /\ search.web_search
    /\ search.web_collection_id # NoId

\* C34: once a search_chunks that created a temporary web collection has
\* finished, by a return or by an exception, that collection is neither in the
\* table nor in the vector store.
C34_WebCollectionIsTemporary ==
    WebCollectionCreated =>
        /\ search.web_collection_id \notin collection_table
        /\ search.web_collection_id \notin vector_collections

-----------------------------------------------------------------------------
(* C35 *)

\* The routers of the list that have a name
Named == { i \in 1..Len(routers) : routers[i].has_name }

\* The name and the aliases of a router
NamesOf(model) == {model.name} \cup { model.aliases[j] : j \in 1..Len(model.aliases) }

\* The names of the routers that have one, in the order of the list
RECURSIVE NamesInOrder(_)
NamesInOrder(list) ==
    IF list = <<>> THEN <<>>
    ELSE (IF Head(list).has_name THEN <<Head(list).name>> ELSE <<>>)
         \o NamesInOrder(Tail(list))

\* C35: for a registry built from any list of routers, a call with the name
\* or an alias of a router that has a name returns that router, a call with
\* any other string raises ModelNotFoundException, no router without a name
\* is kept by the registry, and the list `models` and the dictionary
\* `aliases` of the registry hold the names and the aliases of the routers
\* that have a name and nothing else.
C35_RegistryResolvesNamesAndAliases ==
    /\ \A i \in Named :
          (lookup # NoLookup /\ lookup.model \in NamesOf(routers[i]))
              => lookup.result = [kind |-> "return",
                                  value |-> [ty |-> "ModelRouter", router |-> routers[i]]]
    /\ (lookup # NoLookup /\ \A i \in Named : lookup.model \notin NamesOf(routers[i]))
          => lookup.result = Raise("ModelNotFoundException")
    /\ \A i \in 1..Len(routers) :
          ~routers[i].has_name
              => \A k \in DOMAIN registry.dict :
                    registry.dict[k] # [ty |-> "ModelRouter", router |-> routers[i]]
    /\ registry.dict["models"] = [ty |-> "list", items |-> NamesInOrder(routers)]
    /\ registry.dict["aliases"].ty = "dict"
    /\ DOMAIN registry.dict["aliases"].map =
          UNION { NamesOf(routers[i]) \ {routers[i].name} : i \in Named }

=============================================================================
